---- MODULE Spec2Model ----
(***************************************************************************)
(* Job orchestration of the directory mirroring service (main.go, the      *)
(* mutex-guarded revision): the registry runningSyncs, the request          *)
(* handlers StartSync / CancelSync, the per-job supervisor startSync with   *)
(* its cancellation watcher, and the transfer process each job spawns.      *)
(***************************************************************************)
EXTENDS Integers, Sequences, FiniteSets, TLC

(* ----------------------------- bounds ---------------------------------- *)

\* number of HTTP requests that can be in flight at the same time
NumHandlers == 2

\* number of jobs accepted over the lifetime of the service
MaxJobs == 2

\* number of Remove requests that can be in flight at the same time
MaxRemoves == 1

(* ----------------------------- paths ----------------------------------- *)

\* paths are strings, modelled as sequences of characters
PathA == <<"/", "a">>

PathAB == <<"/", "a", "/", "b">>

PathC == <<"/", "c">>

Paths == {PathA, PathAB, PathC}

PathABC == <<"/", "a", "/", "b", "/", "c">>

PathABCD == <<"/", "a", "/", "b", "/", "c", "/", "d">>

Handlers == 1..NumHandlers

VARIABLES
    Data,          \* runningSyncs.Data: path -> job (index into syncs)
    mutex,         \* runningSyncs.Mutex: <<>> when free, else its holder
    syncs,         \* the Sync structs allocated by accepted starts
    handler,       \* per request slot: the handler's position and result
    pc,            \* per job: position of the startSync goroutine
    watcher,       \* per job: position of the cancellation watcher goroutine
    proc,          \* per job: the rsync child process
    cmdCancelled,  \* per job: startSync's own cancel() has been called
    quit,          \* the process-wide context (signal.NotifyContext) is done
    crashed,       \* the service process is gone: a panic, or main returned
    reply,         \* the HTTP response written by the latest step, if any
    local,         \* the directories below config.DataPath on the local disk
    remote         \* the lines the remote listing command prints

vars ==
    <<Data, mutex, syncs, handler, pc, watcher, proc, cmdCancelled, quit, crashed,
      reply, local, remote>>

(* ----------------------------- helpers --------------------------------- *)

\* strings.HasPrefix(s, prefix)
HasPrefix(s, prefix) ==
    /\ Len(s) >= Len(prefix)
    /\ SubSeq(s, 1, Len(prefix)) = prefix

\* the root of the tree: config.DataPath locally, "/" in every listing
Root == <<"/">>

\* strings.LastIndex(s, "/"), counted from 1; 0 when s has no "/"
LastSlash(s) ==
    LET at == {n \in 1..Len(s) : s[n] = "/"}
    IN  IF at = {} THEN 0 ELSE CHOOSE n \in at : \A k \in at : k <= n

\* filepath.Dir(path) for a clean absolute path: all but the last element
Dir(path) ==
    IF LastSlash(path) <= 1 THEN Root ELSE SubSeq(path, 1, LastSlash(path) - 1)

\* path and the directories above it, up to the root
RECURSIVE UpTo(_)
UpTo(path) == IF path = Root THEN {Root} ELSE {path} \cup UpTo(Dir(path))

\* the directories the local tree walk meets: the root and what is below it
LocalTree == local \cup {Root}

\* os.MkdirAll(dir): dir and its missing parents are created
MkdirAll(dir) == local \cup (UpTo(dir) \ {Root})

\* the directories os.RemoveAll(path) deletes: path and everything below it
Subtree(path) ==
    {q \in local : path \in UpTo(q)}

\* the old revision's test (LoadOrStore on the exact key): equality only
Overlaps_EqualOnly(valuePath, path) == valuePath = path

\* a one-directional test: a registered ancestor goes unnoticed
Overlaps_OneWay(valuePath, path) ==
    valuePath = path \/ HasPrefix(valuePath, path)

\* a test that lets a path through when it is registered already
Overlaps_OtherPathsOnly(valuePath, path) ==
    /\ valuePath # path
    /\ HasPrefix(valuePath, path) \/ HasPrefix(path, valuePath)

\* the condition of the scan loop in sync() and remove()
Overlaps(valuePath, path) ==
    \/ valuePath = path
    \/ HasPrefix(valuePath, path)
    \/ HasPrefix(path, valuePath)

\* the scan loop of sync(): some registered value overlaps path
ScanFinds(path) ==
    \E k \in DOMAIN Data : Overlaps(syncs[Data[k]].Path, path)

Jobs == 1..Len(syncs)

\* currentSync.Context is done: Cancel() was called or the parent context is
JobCtxDone(j) == syncs[j].Cancelled \/ quit

\* the context startSync hands to exec.CommandContext: derived from the
\* job's context, done when that is or when startSync's cancel() ran
CmdCtxDone(j) == cmdCancelled[j] \/ JobCtxDone(j)

NoHolder == <<>>

\* a tryLock that ignores the mutex
CanLock_NoMutex == TRUE

\* runningSyncs.Lock() can return: the mutex is free
CanLock == mutex = NoHolder

Idle(i) == handler[i].pc = "idle"

\* a request slot is free to take the next request
SomeHandlerIdle == {i \in Handlers : Idle(i)} # {}

IdleHandler == [op |-> "none", path |-> <<>>, pc |-> "idle"]

NoReply == [op |-> "none", status |-> 0, path |-> <<>>, results |-> <<>>]

\* c.JSON(status, ...): the response to a request of kind op; path is kept
\* for the answers of sync() and remove() only
Reply(op, status, path) ==
    [op |-> op, status |-> status, path |-> path, results |-> <<>>]

\* c.JSON(http.StatusOK, result): the response that carries a list
ReplyResults(op, results) ==
    [op |-> op, status |-> 200, path |-> <<>>, results |-> results]

\* a uint is 64 bits wide (on the 64-bit platforms); it is held as its four
\* 16-bit digits, the most significant first
Word == 65536

\* the uint with the value m, for an m that fits two digits
Uint64(m) == <<0, 0, m \div Word, m % Word>>

NewSync(path) ==
    [Path |-> path, Progress |-> Uint64(0), Speed |-> Uint64(0), Downloaded |-> Uint64(0),
     TimeLeft |-> <<>>, Cancelled |-> FALSE]

Init ==
    /\ Data = <<>>
    /\ mutex = NoHolder
    /\ syncs = <<>>
    /\ handler = [i \in Handlers |-> IdleHandler]
    /\ pc = <<>>
    /\ watcher = <<>>
    /\ proc = <<>>
    /\ cmdCancelled = <<>>
    /\ quit = FALSE
    /\ crashed = FALSE
    /\ reply = NoReply
    /\ local = {PathA, PathAB, PathC}
    /\ remote = <<PathA, PathAB, PathC>>

jobVars == <<pc, watcher, proc, cmdCancelled>>

(* ------------------------- StartSync / sync ---------------------------- *)

\* start requests past validation and not yet answered (counted against MaxJobs)
StartsInFlight == Cardinality({i \in Handlers : handler[i].op = "start"})

\* a StartSync that answers "invalid path" and launches a supervisor all the same
StartSync_Invalid_Launches(listing) ==
    /\ ~crashed /\ ~quit
    /\ SomeHandlerIdle
    /\ Len(syncs) + StartsInFlight < MaxJobs
    /\ listing \in {"error", "absent"}
    /\ reply' = Reply("start", IF listing = "error" THEN 500 ELSE 400, <<>>)
    /\ syncs' = Append(syncs, NewSync(PathC))
    /\ pc' = Append(pc, "mkdir")
    /\ watcher' = Append(watcher, "none")
    /\ proc' = Append(proc, "none")
    /\ cmdCancelled' = Append(cmdCancelled, FALSE)
    /\ UNCHANGED <<Data, mutex, handler, quit, crashed, local, remote>>

\* StartSync refusing before sync(): the fresh remote listing failed (the
\* error is returned, 500) or does not hold the requested path (400). The
\* answer does not depend on which path was asked for.
StartSync_Invalid(listing) ==
    /\ ~crashed /\ ~quit
    /\ SomeHandlerIdle
    /\ Len(syncs) + StartsInFlight < MaxJobs
    /\ listing \in {"error", "absent"}
    /\ reply' = Reply("start", IF listing = "error" THEN 500 ELSE 400, <<>>)
    /\ UNCHANGED <<Data, mutex, syncs, handler, jobVars, quit, crashed, local, remote>>

\* StartSync up to the call of sync(): bind the request, find the path in a
\* fresh remote listing
StartSync_Validate(i, path) ==
    /\ ~crashed /\ ~quit
    /\ Idle(i)
    /\ Len(syncs) + StartsInFlight < MaxJobs
    /\ handler' = [handler EXCEPT ![i] = [op |-> "start", path |-> path, pc |-> "lock"]]
    /\ reply' = NoReply
    /\ UNCHANGED <<Data, mutex, syncs, jobVars, quit, crashed, local, remote>>

\* a scan that launches the supervisor before it knows the outcome
sync_Scan_SpawnFirst(i) ==
    /\ ~crashed
    /\ handler[i].op = "start" /\ handler[i].pc = "lock"
    /\ CanLock
    /\ IF ScanFinds(handler[i].path)
       THEN /\ handler' = [handler EXCEPT ![i] = IdleHandler]
            /\ reply' = Reply("start", 409, handler[i].path)
            /\ UNCHANGED mutex
            /\ syncs' = Append(syncs, NewSync(handler[i].path))
            /\ pc' = Append(pc, "mkdir")
            /\ watcher' = Append(watcher, "none")
            /\ proc' = Append(proc, "none")
            /\ cmdCancelled' = Append(cmdCancelled, FALSE)
       ELSE /\ handler' = [handler EXCEPT ![i].pc = "insert"]
            /\ reply' = NoReply
            /\ mutex' = <<"h", i>>
            /\ UNCHANGED <<syncs, jobVars>>
    /\ UNCHANGED <<Data, quit, crashed, local, remote>>

\* sync(): runningSyncs.Lock() and the scan loop; on a hit return false (the
\* deferred Unlock runs) and StartSync answers 409 "sync already started";
\* otherwise go on to the insert, the mutex held
sync_Scan(i) ==
    /\ ~crashed
    /\ handler[i].op = "start" /\ handler[i].pc = "lock"
    /\ CanLock
    /\ IF ScanFinds(handler[i].path)
       THEN /\ handler' = [handler EXCEPT ![i] = IdleHandler]
            /\ reply' = Reply("start", 409, handler[i].path)
            /\ UNCHANGED mutex
       ELSE /\ handler' = [handler EXCEPT ![i].pc = "insert"]
            /\ reply' = NoReply
            /\ mutex' = <<"h", i>>
    /\ UNCHANGED <<Data, syncs, jobVars, quit, crashed, local, remote>>

\* a sync() that calls startSync itself instead of spawning it: the handler
\* stays in the call, the lock held, until the transfer is over
sync_Insert_Inline(i) ==
    /\ ~crashed
    /\ handler[i].op = "start" /\ handler[i].pc = "insert"
    /\ LET j == Len(syncs) + 1
           p == handler[i].path
       IN  /\ syncs' = Append(syncs, NewSync(p))
           /\ Data' = [k \in DOMAIN Data \cup {p} |-> IF k = p THEN j ELSE Data[k]]
           /\ pc' = Append(pc, "mkdir")
           /\ watcher' = Append(watcher, "none")
           /\ proc' = Append(proc, "none")
           /\ cmdCancelled' = Append(cmdCancelled, FALSE)
           /\ reply' = NoReply
    /\ handler' = [handler EXCEPT ![i].pc = "startSync"]
    /\ UNCHANGED <<mutex, quit, crashed, local, remote>>

\* sync(): runningSyncs.Data[path] = newSync; go startSync(...); return true
\* (the deferred Unlock runs) and StartSync answers 200
sync_Insert(i) ==
    /\ ~crashed
    /\ handler[i].op = "start" /\ handler[i].pc = "insert"
    /\ LET j == Len(syncs) + 1
           p == handler[i].path
       IN  /\ syncs' = Append(syncs, NewSync(p))
           /\ Data' = [k \in DOMAIN Data \cup {p} |-> IF k = p THEN j ELSE Data[k]]
           /\ pc' = Append(pc, "mkdir")
           /\ watcher' = Append(watcher, "none")
           /\ proc' = Append(proc, "none")
           /\ cmdCancelled' = Append(cmdCancelled, FALSE)
           /\ reply' = Reply("start", 200, p)
    /\ handler' = [handler EXCEPT ![i] = IdleHandler]
    /\ mutex' = NoHolder
    /\ UNCHANGED <<quit, crashed, local, remote>>

(* ----------------------------- CancelSync ------------------------------ *)

\* a cancel that signals every job whose path overlaps the requested one
CancelSync_Overlapping(path) ==
    /\ ~crashed /\ ~quit
    /\ SomeHandlerIdle
    /\ CanLock
    /\ syncs' = [j \in DOMAIN syncs |->
                   IF (\E k \in DOMAIN Data : Data[k] = j) /\ Overlaps(syncs[j].Path, path)
                   THEN [syncs[j] EXCEPT !.Cancelled = TRUE]
                   ELSE syncs[j]]
    /\ reply' = Reply("cancel", 200, <<>>)
    /\ UNCHANGED <<Data, mutex, handler, jobVars, quit, crashed, local, remote>>

\* CancelSync: bind the request; Lock, the exact lookup, currentSync.Cancel()
\* when found, Unlock; answer 200. The critical section has one outcome and
\* is taken in one step.
CancelSync(path) ==
    /\ ~crashed /\ ~quit
    /\ SomeHandlerIdle
    /\ CanLock
    /\ IF path \in DOMAIN Data
       THEN syncs' = [syncs EXCEPT ![Data[path]].Cancelled = TRUE]
       ELSE UNCHANGED syncs
    /\ reply' = Reply("cancel", 200, <<>>)
    /\ UNCHANGED <<Data, mutex, handler, jobVars, quit, crashed, local, remote>>

(* ------------------------------ ListSyncs ------------------------------ *)

\* the byte value of a character: Go compares strings byte by byte
Byte(c) ==
    CASE c = "%" -> 37 [] c = "+" -> 43 [] c = "," -> 44 [] c = "-" -> 45 [] c = "." -> 46
      [] c = "/" -> 47 [] c = "0" -> 48 [] c = "1" -> 49 [] c = "2" -> 50
      [] c = "3" -> 51 [] c = "4" -> 52 [] c = "5" -> 53 [] c = "6" -> 54
      [] c = "7" -> 55 [] c = "8" -> 56 [] c = "9" -> 57 [] c = ":" -> 58
      [] c = "B" -> 66 [] c = "M" -> 77
      [] c = "a" -> 97 [] c = "b" -> 98 [] c = "c" -> 99 [] c = "d" -> 100
      [] c = "k" -> 107 [] c = "s" -> 115 [] c = "x" -> 120

\* s > t on Go strings: at the first position where they differ s has the
\* greater byte, or t is a proper prefix of s
StringGreater(s, t) ==
    LET n == IF Len(s) < Len(t) THEN Len(s) ELSE Len(t)
        differ == {k \in 1..n : s[k] # t[k]}
    IN  IF differ = {}
        THEN Len(s) > Len(t)
        ELSE LET k == CHOOSE d \in differ : \A e \in differ : d <= e
             IN  Byte(s[k]) > Byte(t[k])

\* SyncResult{...}: the view of one job
SyncResult(value) ==
    [Path |-> value.Path, Progress |-> value.Progress, Speed |-> value.Speed,
     Downloaded |-> value.Downloaded, TimeLeft |-> value.TimeLeft]

\* the orders in which a range over the map can deliver its keys
RangeOrders ==
    {order \in [1..Cardinality(Paths) -> Paths] :
        \A k, l \in 1..Cardinality(Paths) : k # l => order[k] # order[l]}

\* the range loop of ListSyncs: the views appended in the order of the range
RECURSIVE Collect(_)
Collect(order) ==
    IF order = <<>> THEN <<>>
    ELSE IF Head(order) \in DOMAIN Data
         THEN <<SyncResult(syncs[Data[Head(order)]])>> \o Collect(Tail(order))
         ELSE Collect(Tail(order))

\* one view put into a list that is in descending order of Path
RECURSIVE InsertDesc(_, _)
InsertDesc(view, sorted) ==
    IF sorted = <<>> THEN <<view>>
    ELSE IF StringGreater(view.Path, Head(sorted).Path)
         THEN <<view>> \o sorted
         ELSE <<Head(sorted)>> \o InsertDesc(view, Tail(sorted))

\* the old revision answers with the list as the range delivered it
SortDesc_Unsorted(results) == results

\* sort.Slice(result.Results, func(i, j) { return Path[i] > Path[j] })
RECURSIVE SortDesc(_)
SortDesc(results) ==
    IF results = <<>> THEN <<>>
    ELSE InsertDesc(Head(results), SortDesc(Tail(results)))

\* ListSyncs: Lock, the range loop, the sort, Unlock; answer 200 with the list.
\* The critical section reads the registry only and is taken in one step.
ListSyncs(order) ==
    /\ ~crashed /\ ~quit
    /\ SomeHandlerIdle
    /\ CanLock
    /\ reply' = ReplyResults("list", SortDesc(Collect(order)))
    /\ UNCHANGED <<Data, mutex, syncs, handler, jobVars, quit, crashed, local, remote>>

(* ------------------------------- Remove -------------------------------- *)

\* what the local tree walk of a Remove request meets
Walks == {"walk failed", "walked"}

\* a Remove that looks for an overlapping job before it validates the path
Remove_Invalid_ScanFirst(path, walk) ==
    /\ ~crashed /\ ~quit
    /\ SomeHandlerIdle
    /\ walk = "walk failed" \/ path \notin LocalTree
    /\ reply' = Reply("remove",
                      IF ScanFinds(path) THEN 409
                      ELSE IF walk = "walk failed" THEN 500 ELSE 400, <<>>)
    /\ UNCHANGED <<Data, mutex, syncs, handler, jobVars, quit, crashed, local, remote>>

\* Remove refusing before remove(): buildLocalTree failed (the error is
\* returned, 500) or the local tree does not hold the requested path (400
\* "invalid path")
Remove_Invalid(path, walk) ==
    /\ ~crashed /\ ~quit
    /\ SomeHandlerIdle
    /\ walk = "walk failed" \/ path \notin LocalTree
    /\ reply' = Reply("remove", IF walk = "walk failed" THEN 500 ELSE 400, <<>>)
    /\ UNCHANGED <<Data, mutex, syncs, handler, jobVars, quit, crashed, local, remote>>

\* Remove requests past validation and not yet answered
RemovesInFlight == Cardinality({i \in Handlers : handler[i].op = "remove"})

\* Remove up to the call of remove(): bind the request, find the path in a
\* fresh local tree
Remove_Validate(i, path) ==
    /\ ~crashed /\ ~quit
    /\ Idle(i)
    /\ RemovesInFlight < MaxRemoves
    /\ path \in LocalTree
    /\ handler' = [handler EXCEPT ![i] = [op |-> "remove", path |-> path, pc |-> "lock"]]
    /\ reply' = NoReply
    /\ UNCHANGED <<Data, mutex, syncs, jobVars, quit, crashed, local, remote>>

\* a remove() that unlocks after the scan, before the deletion
remove_Scan_UnlockEarly(i) ==
    /\ ~crashed
    /\ handler[i].op = "remove" /\ handler[i].pc = "lock"
    /\ CanLock
    /\ IF ScanFinds(handler[i].path)
       THEN /\ handler' = [handler EXCEPT ![i] = IdleHandler]
            /\ reply' = Reply("remove", 409, handler[i].path)
       ELSE /\ handler' = [handler EXCEPT ![i].pc = "removeall"]
            /\ reply' = NoReply
    /\ UNCHANGED <<Data, mutex, syncs, jobVars, quit, crashed, local, remote>>

\* remove(): runningSyncs.Lock() and the scan loop; on a hit return false (the
\* deferred Unlock runs) and Remove answers 409 "sync in progress"; otherwise
\* go on to os.RemoveAll, the mutex held
remove_Scan(i) ==
    /\ ~crashed
    /\ handler[i].op = "remove" /\ handler[i].pc = "lock"
    /\ CanLock
    /\ IF ScanFinds(handler[i].path)
       THEN /\ handler' = [handler EXCEPT ![i] = IdleHandler]
            /\ reply' = Reply("remove", 409, handler[i].path)
            /\ UNCHANGED mutex
       ELSE /\ handler' = [handler EXCEPT ![i].pc = "removeall"]
            /\ reply' = NoReply
            /\ mutex' = <<"h", i>>
    /\ UNCHANGED <<Data, syncs, jobVars, quit, crashed, local, remote>>

\* no directory is left without its parent
Closed(dirs) == \A q \in dirs : Dir(q) \in dirs \cup {Root}

\* remove(): os.RemoveAll(filepath.Join(config.DataPath, path)) and the
\* deferred Unlock. RemoveAll deletes the subtree bottom-up; gone is what it
\* has deleted when it returns: the whole subtree (nil is returned, Remove
\* answers 200) or, on an error, less (the error is returned, 500)
remove_RemoveAll(i, gone) ==
    /\ ~crashed
    /\ handler[i].op = "remove" /\ handler[i].pc = "removeall"
    /\ gone \subseteq Subtree(handler[i].path)
    /\ Closed(local \ gone)
    /\ local' = local \ gone
    /\ reply' = Reply("remove", IF gone = Subtree(handler[i].path) THEN 200 ELSE 500,
                      handler[i].path)
    /\ handler' = [handler EXCEPT ![i] = IdleHandler]
    /\ mutex' = NoHolder
    /\ UNCHANGED <<Data, syncs, jobVars, quit, crashed, remote>>

(* ------------------------ startSync (supervisor) ----------------------- *)

\* what the supervisor meets before cmd.Run: MkdirAll fails; a pipe cannot be
\* created; or everything is set up
Setups == {"mkdir failed", "pipe failed", "ready"}

\* a supervisor whose early return on a MkdirAll failure skips the teardown
startSync_Setup_NoDefer(j, setup) ==
    /\ j \in Jobs
    /\ ~crashed
    /\ pc[j] = "mkdir"
    /\ CASE setup = "mkdir failed" ->
              /\ pc' = [pc EXCEPT ![j] = "done"]
              /\ cmdCancelled' = [cmdCancelled EXCEPT ![j] = TRUE]
              /\ UNCHANGED watcher
         [] setup = "pipe failed" ->
              /\ pc' = [pc EXCEPT ![j] = "teardown"]
              /\ watcher' = [watcher EXCEPT ![j] = "blocked"]
              /\ UNCHANGED cmdCancelled
         [] OTHER ->
              /\ pc' = [pc EXCEPT ![j] = "run"]
              /\ watcher' = [watcher EXCEPT ![j] = "blocked"]
              /\ UNCHANGED cmdCancelled
    /\ reply' = NoReply
    /\ local' = IF setup = "mkdir failed" THEN local ELSE MkdirAll(Dir(syncs[j].Path))
    /\ UNCHANGED <<Data, mutex, syncs, handler, proc, quit, crashed, remote>>

\* a supervisor that logs the MkdirAll failure and goes on to run the command
startSync_Setup_MkdirIgnored(j, setup) ==
    /\ j \in Jobs
    /\ ~crashed
    /\ pc[j] = "mkdir"
    /\ CASE setup = "mkdir failed" ->
              /\ pc' = [pc EXCEPT ![j] = "run"]
              /\ UNCHANGED <<watcher, cmdCancelled>>
         [] setup = "pipe failed" ->
              /\ pc' = [pc EXCEPT ![j] = "teardown"]
              /\ watcher' = [watcher EXCEPT ![j] = "blocked"]
              /\ UNCHANGED cmdCancelled
         [] OTHER ->
              /\ pc' = [pc EXCEPT ![j] = "run"]
              /\ watcher' = [watcher EXCEPT ![j] = "blocked"]
              /\ UNCHANGED cmdCancelled
    /\ reply' = NoReply
    /\ local' = IF setup = "mkdir failed" THEN local ELSE MkdirAll(Dir(syncs[j].Path))
    /\ UNCHANGED <<Data, mutex, syncs, handler, proc, quit, crashed, remote>>

\* startSync up to cmd.Run: derive ctx; os.MkdirAll, on failure cancel() and
\* return (to the deferred delete); build cmd and launch the cancellation
\* watcher; StderrPipe and StdoutPipe, on failure return, and launch their
\* readers. The pipes and readers touch nothing another goroutine sees.
startSync_Setup(j, setup) ==
    /\ j \in Jobs
    /\ ~crashed
    /\ pc[j] = "mkdir"
    /\ CASE setup = "mkdir failed" ->
              /\ pc' = [pc EXCEPT ![j] = "teardown"]
              /\ cmdCancelled' = [cmdCancelled EXCEPT ![j] = TRUE]
              /\ UNCHANGED watcher
         [] setup = "pipe failed" ->
              /\ pc' = [pc EXCEPT ![j] = "teardown"]
              /\ watcher' = [watcher EXCEPT ![j] = "blocked"]
              /\ UNCHANGED cmdCancelled
         [] OTHER ->
              /\ pc' = [pc EXCEPT ![j] = "run"]
              /\ watcher' = [watcher EXCEPT ![j] = "blocked"]
              /\ UNCHANGED cmdCancelled
    /\ reply' = NoReply
    /\ local' = IF setup = "mkdir failed" THEN local ELSE MkdirAll(Dir(syncs[j].Path))
    /\ UNCHANGED <<Data, mutex, syncs, handler, proc, quit, crashed, remote>>

\* startSync: cmd.Run(), its Start half. Start refuses when the command's
\* context is already done, and can fail on its own; in both cases no process
\* exists and cmd.Process stays nil
startSync_RunStart(j, ok) ==
    /\ j \in Jobs
    /\ ~crashed
    /\ pc[j] = "run"
    /\ IF ok /\ ~CmdCtxDone(j)
       THEN /\ proc' = [proc EXCEPT ![j] = "live"]
            /\ pc' = [pc EXCEPT ![j] = "wait"]
       ELSE /\ pc' = [pc EXCEPT ![j] = "teardown"]
            /\ UNCHANGED proc
    /\ reply' = NoReply
    /\ UNCHANGED <<Data, mutex, syncs, handler, watcher, cmdCancelled, quit, crashed, local, remote>>

\* a supervisor that starts the command and does not wait for it
startSync_RunWait_NoWait(j) ==
    /\ j \in Jobs
    /\ ~crashed
    /\ pc[j] = "wait"
    /\ pc' = [pc EXCEPT ![j] = "teardown"]
    /\ reply' = NoReply
    /\ UNCHANGED <<Data, mutex, syncs, handler, watcher, proc, cmdCancelled, quit, crashed, local, remote>>

\* a supervisor that runs the command again when it has exited
startSync_RunWait_Again(j) ==
    /\ j \in Jobs
    /\ ~crashed
    /\ pc[j] = "wait"
    /\ proc[j] \in {"exited", "killed"}
    /\ pc' = [pc EXCEPT ![j] = "run"]
    /\ proc' = [proc EXCEPT ![j] = "none"]
    /\ reply' = NoReply
    /\ UNCHANGED <<Data, mutex, syncs, handler, watcher, cmdCancelled, quit, crashed, local, remote>>

\* startSync: cmd.Run(), its Wait half: returns once the process has exited
startSync_RunWait(j) ==
    /\ j \in Jobs
    /\ ~crashed
    /\ pc[j] = "wait"
    /\ proc[j] \in {"exited", "killed"}
    /\ pc' = [pc EXCEPT ![j] = "teardown"]
    /\ reply' = NoReply
    /\ UNCHANGED <<Data, mutex, syncs, handler, watcher, proc, cmdCancelled, quit, crashed, local, remote>>

\* a teardown that leaves the entry in the map
startSync_Defer_Keep(j) ==
    /\ j \in Jobs
    /\ ~crashed
    /\ pc[j] = "teardown"
    /\ CanLock
    /\ pc' = [pc EXCEPT ![j] = "done"]
    /\ reply' = NoReply
    /\ UNCHANGED <<Data, mutex, syncs, handler, watcher, proc, cmdCancelled, quit, crashed, local, remote>>

\* the deferred function: Lock; delete(runningSyncs.Data, currentSync.Path);
\* Unlock. The critical section has one outcome and is taken in one step.
startSync_Defer(j) ==
    /\ j \in Jobs
    /\ ~crashed
    /\ pc[j] = "teardown"
    /\ CanLock
    /\ Data' = [k \in DOMAIN Data \ {syncs[j].Path} |-> Data[k]]
    /\ pc' = [pc EXCEPT ![j] = "done"]
    /\ reply' = NoReply
    /\ UNCHANGED <<mutex, syncs, handler, watcher, proc, cmdCancelled, quit, crashed, local, remote>>

(* --------------------------- progress reader --------------------------- *)

\* the words rsync can print on its standard output
Tok42 == <<"4", "2", "%">>

Tok7 == <<"7", "%">>

TokNeg == <<"-", "1", "%">>

Tok150 == <<"1", "5", "0", "%">>

TokColonPct == <<"1", ":", "0", "%">>

TokGarbage == <<"x", "%", "%">>

TokSpeed == <<"2", "k", "B", "/", "s">>

TokSpeedFrac == <<"1", ".", "5", "M", "B", "/", "s">>

TokBadSpeed == <<"x", "/", "s">>

TokTime == <<"0", ":", "0", "1">>

TokBytes == <<"1", ",", "2", "3", "4">>

TokNegBytes == <<"-", "1", ",", "2", "3", "4">>

TokWord == <<"x">>

Tokens ==
    {Tok42, Tok7, TokNeg, Tok150, TokColonPct, TokGarbage, TokSpeed, TokSpeedFrac,
     TokBadSpeed, TokTime, TokBytes, TokNegBytes, TokWord}

\* strings.HasSuffix(s, suffix)
HasSuffix(s, suffix) ==
    /\ Len(s) >= Len(suffix)
    /\ SubSeq(s, Len(s) - Len(suffix) + 1, Len(s)) = suffix

\* strings.TrimSuffix(s, suffix): one occurrence is removed
TrimSuffix(s, suffix) ==
    IF HasSuffix(s, suffix) THEN SubSeq(s, 1, Len(s) - Len(suffix)) ELSE s

\* strings.Contains(s, c) for a one-character c
Contains(s, c) == \E k \in 1..Len(s) : s[k] = c

\* strings.ReplaceAll(s, c, "") for a one-character c
RemoveAllOf(s, c) == SelectSeq(s, LAMBDA x : x # c)

Digits == {"0", "1", "2", "3", "4", "5", "6", "7", "8", "9"}

IsDigits(s) == Len(s) > 0 /\ \A k \in 1..Len(s) : s[k] \in Digits

\* the number a string of decimal digits denotes
RECURSIVE Decimal(_)
Decimal(s) ==
    IF s = <<>> THEN 0
    ELSE 10 * Decimal(SubSeq(s, 1, Len(s) - 1)) + (Byte(s[Len(s)]) - Byte("0"))

RECURSIVE Power10(_)
Power10(n) == IF n = 0 THEN 1 ELSE 10 * Power10(n - 1)

\* strconv.Atoi(s): an optional sign and at least one digit, nothing else
\* (the tokens are far too short for the range error)
Atoi(s) ==
    LET signed == Len(s) > 0 /\ s[1] \in {"+", "-"}
        digits == IF signed THEN Tail(s) ELSE s
    IN  IF ~IsDigits(digits) THEN [err |-> TRUE, v |-> 0]
        ELSE [err |-> FALSE,
              v |-> IF signed /\ s[1] = "-" THEN 0 - Decimal(digits) ELSE Decimal(digits)]

\* units.FromHumanSize(s): a decimal number, then an optional unit letter
\* (multiples of 1000) and an optional "B"; the product is cut to an integer
FromHumanSize(s) ==
    LET numEnd == IF \E k \in 1..Len(s) : s[k] \in Digits \cup {"."}
                  THEN CHOOSE k \in 1..Len(s) :
                          /\ s[k] \in Digits \cup {"."}
                          /\ \A l \in (k + 1)..Len(s) : s[l] \notin Digits \cup {"."}
                  ELSE 0
        num == SubSeq(s, 1, numEnd)
        sfx == SubSeq(s, numEnd + 1, Len(s))
        dots == {k \in 1..Len(num) : num[k] = "."}
        dot == IF dots = {} THEN Len(num) + 1 ELSE CHOOSE k \in dots : TRUE
        whole == SubSeq(num, 1, dot - 1)
        frac == SubSeq(num, dot + 1, Len(num))
        numOk == /\ Cardinality(dots) <= 1
                 /\ IsDigits(whole)
                 /\ dots # {} => IsDigits(frac)
        unit == IF sfx = <<>> \/ sfx = <<"B">> THEN 1
                ELSE IF sfx \in {<<"k">>, <<"k", "B">>} THEN 1000
                ELSE IF sfx \in {<<"M">>, <<"M", "B">>} THEN 1000000
                ELSE 0
    IN  IF numEnd = 0 \/ ~numOk \/ unit = 0 THEN [err |-> TRUE, v |-> 0]
        ELSE [err |-> FALSE,
              v |-> (Decimal(whole \o frac) * unit) \div Power10(Len(frac))]

\* uint(v): the conversion keeps the 64 bits of the two's complement, so a
\* negative v becomes v + 2^64, whose digits are the complements of those
\* of -v - 1
Uint(v) ==
    IF v >= 0 THEN Uint64(v)
    ELSE [k \in 1..4 |-> (Word - 1) - Uint64(0 - v - 1)[k]]

\* a failed parse: logger.Error("failed parse string", value, error)
ParseFailed(sync) == [sync |-> sync, failed |-> TRUE]

Parsed(sync) == [sync |-> sync, failed |-> FALSE]

\* a reader that looks for ":" before it looks at the suffixes
ReadToken_ColonFirst(sync, text) ==
    IF Contains(text, ":")
    THEN Parsed([sync EXCEPT !.TimeLeft = text])
    ELSE IF HasSuffix(text, <<"%">>)
    THEN LET a == Atoi(TrimSuffix(text, <<"%">>))
         IN  IF a.err THEN ParseFailed(sync)
             ELSE Parsed([sync EXCEPT !.Progress = Uint(a.v)])
    ELSE IF HasSuffix(text, <<"/", "s">>)
    THEN LET h == FromHumanSize(TrimSuffix(text, <<"/", "s">>))
         IN  IF h.err THEN ParseFailed(sync)
             ELSE Parsed([sync EXCEPT !.Speed = Uint(h.v)])
    ELSE LET a == Atoi(RemoveAllOf(text, ","))
         IN  IF a.err THEN ParseFailed(sync)
             ELSE Parsed([sync EXCEPT !.Downloaded = Uint(a.v)])

\* a reader that assigns the value Atoi and FromHumanSize return with an error
ReadToken_AssignOnError(sync, text) ==
    IF HasSuffix(text, <<"%">>)
    THEN LET a == Atoi(TrimSuffix(text, <<"%">>))
         IN  [sync |-> [sync EXCEPT !.Progress = Uint(a.v)], failed |-> a.err]
    ELSE IF HasSuffix(text, <<"/", "s">>)
    THEN LET h == FromHumanSize(TrimSuffix(text, <<"/", "s">>))
         IN  [sync |-> [sync EXCEPT !.Speed = Uint(h.v)], failed |-> h.err]
    ELSE IF Contains(text, ":")
    THEN Parsed([sync EXCEPT !.TimeLeft = text])
    ELSE LET a == Atoi(RemoveAllOf(text, ","))
         IN  [sync |-> [sync EXCEPT !.Downloaded = Uint(a.v)], failed |-> a.err]

\* the body of the reader's loop for one word of output
ReadToken(sync, text) ==
    IF HasSuffix(text, <<"%">>)
    THEN LET a == Atoi(TrimSuffix(text, <<"%">>))
         IN  IF a.err THEN ParseFailed(sync)
             ELSE Parsed([sync EXCEPT !.Progress = Uint(a.v)])
    ELSE IF HasSuffix(text, <<"/", "s">>)
    THEN LET h == FromHumanSize(TrimSuffix(text, <<"/", "s">>))
         IN  IF h.err THEN ParseFailed(sync)
             ELSE Parsed([sync EXCEPT !.Speed = Uint(h.v)])
    ELSE IF Contains(text, ":")
    THEN Parsed([sync EXCEPT !.TimeLeft = text])
    ELSE LET a == Atoi(RemoveAllOf(text, ","))
         IN  IF a.err THEN ParseFailed(sync)
             ELSE Parsed([sync EXCEPT !.Downloaded = Uint(a.v)])

\* a reader that writes what it parses into every job
reader_Token_Shared(j, text) ==
    /\ j \in Jobs
    /\ ~crashed
    /\ pc[j] = "wait"
    /\ syncs' = [k \in DOMAIN syncs |-> ReadToken(syncs[k], text).sync]
    /\ reply' = IF ReadToken(syncs[j], text).failed THEN Reply("log", 0, text) ELSE NoReply
    /\ UNCHANGED <<Data, mutex, handler, jobVars, quit, crashed, local, remote>>

\* the reader goroutine of job j takes the next word from the stdout pipe,
\* which delivers until cmd.Wait has returned. A failed parse is logged with
\* the word; nothing is written otherwise.
reader_Token(j, text) ==
    /\ j \in Jobs
    /\ ~crashed
    /\ pc[j] = "wait"
    /\ LET r == ReadToken(syncs[j], text)
       IN  /\ syncs' = [syncs EXCEPT ![j] = r.sync]
           /\ reply' = IF r.failed THEN Reply("log", 0, text) ELSE NoReply
    /\ UNCHANGED <<Data, mutex, handler, jobVars, quit, crashed, local, remote>>

(* ------------------------ cancellation watcher ------------------------- *)

\* the watcher goroutine: <-currentSync.Context.Done(), then cmd.Process.Pid.
\* cmd.Process is nil until Start has created the process: the dereference
\* panics and the service terminates. Otherwise SIGTERM is sent (an error
\* for a finished process is only logged) and the 5 s sleep begins
watcher_Signal(j) ==
    /\ j \in Jobs
    /\ ~crashed
    /\ watcher[j] = "blocked"
    /\ JobCtxDone(j)
    /\ IF proc[j] = "none"
       THEN /\ crashed' = TRUE
            /\ watcher' = [watcher EXCEPT ![j] = "panic"]
       ELSE /\ watcher' = [watcher EXCEPT ![j] = "sleep"]
            /\ UNCHANGED crashed
    /\ reply' = NoReply
    /\ UNCHANGED <<Data, mutex, syncs, handler, pc, proc, cmdCancelled, quit, local, remote>>

\* the watcher goroutine: time.Sleep(5 s) has elapsed; cancel()
watcher_Cancel(j) ==
    /\ j \in Jobs
    /\ ~crashed
    /\ watcher[j] = "sleep"
    /\ watcher' = [watcher EXCEPT ![j] = "done"]
    /\ cmdCancelled' = [cmdCancelled EXCEPT ![j] = TRUE]
    /\ reply' = NoReply
    /\ UNCHANGED <<Data, mutex, syncs, handler, pc, proc, quit, crashed, local, remote>>

(* --------------------------- transfer process -------------------------- *)

\* the rsync child exits on its own: success, failure, or in answer to SIGTERM
proc_Exit(j) ==
    /\ j \in Jobs
    /\ ~crashed
    /\ proc[j] = "live"
    /\ proc' = [proc EXCEPT ![j] = "exited"]
    /\ reply' = NoReply
    /\ UNCHANGED <<Data, mutex, syncs, handler, pc, watcher, cmdCancelled, quit, crashed, local, remote>>

\* the rsync child creates the directory it transfers inside the destination
\* directory (the parent that MkdirAll ensured)
rsync_Write(j) ==
    /\ j \in Jobs
    /\ ~crashed
    /\ proc[j] = "live"
    /\ Dir(syncs[j].Path) \in LocalTree
    /\ syncs[j].Path \notin local
    /\ local' = local \cup {syncs[j].Path}
    /\ reply' = NoReply
    /\ UNCHANGED <<Data, mutex, syncs, handler, pc, watcher, proc, cmdCancelled, quit, crashed, remote>>

\* exec.CommandContext: once the command's context is done the process is
\* killed (os.Process.Kill)
exec_CtxKill(j) ==
    /\ j \in Jobs
    /\ ~crashed
    /\ proc[j] = "live"
    /\ CmdCtxDone(j)
    /\ proc' = [proc EXCEPT ![j] = "killed"]
    /\ reply' = NoReply
    /\ UNCHANGED <<Data, mutex, syncs, handler, pc, watcher, cmdCancelled, quit, crashed, local, remote>>

(* ------------------------------ shutdown ------------------------------- *)

\* main: the interrupt signal makes the process-wide context done; the HTTP
\* server stops accepting requests
Interrupt ==
    /\ ~crashed
    /\ ~quit
    /\ quit' = TRUE
    /\ reply' = NoReply
    /\ UNCHANGED <<Data, mutex, syncs, handler, jobVars, crashed, local, remote>>

\* main: <-quit.Done() has returned; srv.Shutdown waits at most 10 s for
\* the open connections and for nothing else, then main returns (or calls
\* os.Exit) and the process ends with every goroutine in it; the rsync
\* children are left to themselves
main_Return ==
    /\ ~crashed
    /\ quit
    /\ crashed' = TRUE
    /\ reply' = NoReply
    /\ UNCHANGED <<Data, mutex, syncs, handler, jobVars, quit, local, remote>>

(* ------------------------- directory trees ----------------------------- *)

\* the longest remote listing considered
MaxListing == 4

\* the directories a listing or the local disk can name
TreePaths == {<<"/">>, PathA, PathAB, PathABC, PathABCD, PathC}

\* the outputs of the remote command: lines in any order, repeated or not
Listings == UNION {[1..n -> TreePaths] : n \in 0..MaxListing}

\* filepath.Base(path) for a clean absolute path: the last element
Base(path) ==
    IF path = Root THEN Root ELSE SubSeq(path, LastSlash(path) + 1, Len(path))

\* pathMap := map[string]*Dir{}: no node yet
NoNodes == [items |-> <<>>, pathMap |-> [path \in {} |-> 0]]

\* the scan loop of buildRemoteTree after n lines. items[k] is the Dir made for
\* line k, and a pointer to it is the number k (0 is nil); pathMap holds for
\* a path the pointer stored last
RECURSIVE ScanLines(_, _)
ScanLines(lines, n) ==
    IF n = 0 THEN NoNodes
    ELSE LET before == ScanLines(lines, n - 1)
             path == lines[n]
             parent == IF Dir(path) \in DOMAIN before.pathMap
                       THEN before.pathMap[Dir(path)] ELSE 0
             item == [Path |-> path, Name |-> Base(path),
                      Children |-> [name \in {} |-> 0],
                      Parent |-> parent, Synced |-> TRUE]
             linked == IF parent = 0 THEN before.items
                       ELSE [before.items EXCEPT
                                ![parent].Children = (item.Name :> n) @@ @]
         IN  [items |-> Append(linked, item),
              pathMap |-> (path :> n) @@ before.pathMap]

\* only the node itself is marked
setNotSynced_Alone(items, item) == {item}

\* setNotSynced(item): the nodes it marks, item and those on its Parent chain
RECURSIVE setNotSynced(_, _)
setNotSynced(items, item) ==
    IF items[item].Parent = 0 THEN {item}
    ELSE {item} \cup setNotSynced(items, items[item].Parent)

\* a buildRemoteTree that finds the ancestors by their keys: every node whose
\* path is that of a missing node, or of a directory above one, is marked
BuildRemoteTree_ByKey(lines, localPathMap) ==
    LET scanned == ScanLines(lines, Len(lines))
        missing == DOMAIN scanned.pathMap \ localPathMap
        marked == {k \in DOMAIN scanned.items :
                      \E path \in missing : scanned.items[k].Path \in UpTo(path)}
    IN  [items |-> [k \in DOMAIN scanned.items |->
                       [scanned.items[k] EXCEPT !.Synced = k \notin marked]],
         pathMap |-> scanned.pathMap]

\* buildRemoteTree on a command that ran to its end with exit status 0: the
\* scan, then setNotSynced for every key that localPathMap lacks. The calls
\* only ever clear Synced, so the order of the range makes no difference
BuildRemoteTree(lines, localPathMap) ==
    LET scanned == ScanLines(lines, Len(lines))
        missing == DOMAIN scanned.pathMap \ localPathMap
        marked == UNION {setNotSynced(scanned.items, scanned.pathMap[path]) :
                            path \in missing}
    IN  [items |-> [k \in DOMAIN scanned.items |->
                       [scanned.items[k] EXCEPT !.Synced = k \notin marked]],
         pathMap |-> scanned.pathMap]

\* sort.Strings(keys): ascending, byte by byte
RECURSIVE SortStrings(_)
SortStrings(keys) ==
    IF keys = {} THEN <<>>
    ELSE LET least == CHOOSE k \in keys :
                          \A other \in keys : ~StringGreater(k, other)
         IN  <<least>> \o SortStrings(keys \ {least})

\* buildLocalTree on a walk without error: filepath.WalkDir delivers a
\* directory before what is in it, in lexical order, each directory once; the
\* nodes are made as in buildRemoteTree, with Synced false
BuildLocalTree(dirs) ==
    LET walk == SortStrings(dirs \cup {Root})
        walked == ScanLines(walk, Len(walk))
    IN  [items |-> [k \in DOMAIN walked.items |->
                       [walked.items[k] EXCEPT !.Synced = FALSE]],
         pathMap |-> walked.pathMap]

\* how the remote listing command of a ListDirs request ends
Runs == {"start failed", "exit nonzero", "listed"}

\* ListDirs: the local walk, the remote listing, then one DirResult per key of
\* the remote map in ascending order of the keys. It takes no lock.
ListDirs(walk, run) ==
    /\ ~crashed /\ ~quit
    /\ SomeHandlerIdle
    /\ reply' =
          IF walk = "walk failed" \/ run # "listed"
          THEN Reply("dirs", 500, <<>>)
          ELSE LET tree == BuildRemoteTree(remote, LocalTree)
                   keys == SortStrings(DOMAIN tree.pathMap)
               IN  ReplyResults("dirs",
                       [k \in DOMAIN keys |->
                           [Path |-> tree.items[tree.pathMap[keys[k]]].Path,
                            Synced |-> tree.items[tree.pathMap[keys[k]]].Synced]])
    /\ UNCHANGED <<Data, mutex, syncs, handler, jobVars, quit, crashed, local, remote>>

\* ListDirs when the scanner of buildRemoteTree stops on a read error after
\* `read` lines and the command then exits with status 0: scanner.Scan()
\* returns false as at the end of the stream, scanner.Err() is never looked
\* at, cmd.Wait() returns nil, and the nodes made so far are the tree.
ListDirs_ReadFailed(read) ==
    /\ ~crashed /\ ~quit
    /\ SomeHandlerIdle
    /\ read < Len(remote)
    /\ reply' =
          LET tree == BuildRemoteTree(SubSeq(remote, 1, read), LocalTree)
              keys == SortStrings(DOMAIN tree.pathMap)
          IN  ReplyResults("dirs",
                  [k \in DOMAIN keys |->
                      [Path |-> tree.items[tree.pathMap[keys[k]]].Path,
                       Synced |-> tree.items[tree.pathMap[keys[k]]].Synced]])
    /\ UNCHANGED <<Data, mutex, syncs, handler, jobVars, quit, crashed, local, remote>>

(* ---------------------------- specification ---------------------------- *)

HandlerStep ==
    \/ \E l \in {"error", "absent"} : StartSync_Invalid(l)
    \/ \E i \in Handlers, p \in Paths : StartSync_Validate(i, p)
    \/ \E i \in Handlers : sync_Scan(i)
    \/ \E i \in Handlers : sync_Insert(i)
    \/ \E p \in Paths : CancelSync(p)

JobStep ==
    \E j \in 1..MaxJobs :
        \/ \E setup \in Setups : startSync_Setup(j, setup)
        \/ \E ok \in BOOLEAN : startSync_RunStart(j, ok)
        \/ startSync_RunWait(j)
        \/ startSync_Defer(j)
        \/ watcher_Signal(j)
        \/ watcher_Cancel(j)
        \/ proc_Exit(j)
        \/ exec_CtxKill(j)

\* the job orchestration core: requests, supervisors, watchers, processes
Next == HandlerStep \/ JobStep

Spec == Init /\ [][Next]_vars

\* the core together with the interrupt signal of main
NextWithShutdown == Next \/ Interrupt

ShutdownSpec == Init /\ [][NextWithShutdown]_vars

\* the core from the interrupt signal to the end of the process
NextToExit == NextWithShutdown \/ main_Return

\* start requests, from the validation to the answer of sync()
StartStep ==
    \/ \E i \in Handlers, p \in Paths : StartSync_Validate(i, p)
    \/ \E i \in Handlers : sync_Scan(i)
    \/ \E i \in Handlers : sync_Insert(i)

\* a job that nobody cancels and whose setup and cmd.Start succeed, from the
\* setup to the deferred delete
RunStep ==
    \E j \in 1..MaxJobs :
        \/ startSync_Setup(j, "ready")
        \/ startSync_RunStart(j, TRUE)
        \/ startSync_RunWait(j)
        \/ startSync_Defer(j)
        \/ proc_Exit(j)

\* list requests against jobs that start, transfer and end
ListNext ==
    \/ StartStep
    \/ RunStep
    \/ \E order \in RangeOrders : ListSyncs(order)

ListSpec == Init /\ [][ListNext]_vars

\* the service with one job, on "/a", whose rsync has just been started
ReaderInit ==
    /\ Data = (PathA :> 1)
    /\ mutex = NoHolder
    /\ syncs = <<NewSync(PathA)>>
    /\ handler = [i \in Handlers |-> IdleHandler]
    /\ pc = <<"wait">>
    /\ watcher = <<"blocked">>
    /\ proc = <<"live">>
    /\ cmdCancelled = <<FALSE>>
    /\ quit = FALSE
    /\ crashed = FALSE
    /\ reply = NoReply
    /\ local = {PathA, PathAB, PathC}
    /\ remote = <<PathA, PathAB, PathC>>

\* the output of a running transfer, read word by word until the job ends
ReaderNext ==
    \E j \in 1..MaxJobs :
        \/ \E text \in Tokens : reader_Token(j, text)
        \/ proc_Exit(j)
        \/ startSync_RunWait(j)
        \/ startSync_Defer(j)

ReaderSpec == ReaderInit /\ [][ReaderNext]_vars

\* the idle service, with any local tree below the data directory and any
\* output of the remote listing command
TreeInit ==
    /\ Data = <<>>
    /\ mutex = NoHolder
    /\ syncs = <<>>
    /\ handler = [i \in Handlers |-> IdleHandler]
    /\ pc = <<>>
    /\ watcher = <<>>
    /\ proc = <<>>
    /\ cmdCancelled = <<>>
    /\ quit = FALSE
    /\ crashed = FALSE
    /\ reply = NoReply
    /\ local \in {dirs \in SUBSET (TreePaths \ {Root}) :
                     \A path \in dirs : Dir(path) \in dirs \cup {Root}}
    /\ remote \in Listings

\* directory listing requests
TreeNext == \E walk \in Walks, run \in Runs : ListDirs(walk, run)

TreeSpec == TreeInit /\ [][TreeNext]_vars

\* directory listing requests, the remote stream failing or not
StreamNext ==
    \/ TreeNext
    \/ \E read \in 0..MaxListing : ListDirs_ReadFailed(read)

StreamSpec == TreeInit /\ [][StreamNext]_vars

\* remove requests for paths of the local tree
RemoveStep ==
    \/ \E i \in Handlers, p \in Paths : Remove_Validate(i, p)
    \/ \E i \in Handlers : remove_Scan(i)
    \/ \E i \in Handlers, gone \in SUBSET Paths : remove_RemoveAll(i, gone)

\* remove requests against jobs that start, transfer and end
RemoveNext ==
    \/ StartStep
    \/ RunStep
    \/ RemoveStep
    \/ \E j \in 1..MaxJobs : rsync_Write(j)

RemoveSpec == Init /\ [][RemoveNext]_vars

\* remove requests, valid or not, against jobs that have been accepted
ValidateNext ==
    \/ StartStep
    \/ RemoveStep
    \/ \E p \in Paths, walk \in Walks : Remove_Invalid(p, walk)

ValidateSpec == Init /\ [][ValidateNext]_vars

\* the words the readers deliver where several jobs transfer at once
FieldTokens == {Tok42, TokTime}

\* start and remove requests that come one at a time
OneRequestStep ==
    \/ \E p \in Paths : StartSync_Validate(1, p)
    \/ sync_Scan(1)
    \/ sync_Insert(1)
    \/ \E p \in Paths : Remove_Validate(1, p)
    \/ remove_Scan(1)
    \/ \E gone \in SUBSET Paths : remove_RemoveAll(1, gone)

\* jobs whose transfers start and keep running, their readers at work, under
\* start, cancel, list and remove requests
FieldsNext ==
    \/ OneRequestStep
    \/ \E p \in Paths : CancelSync(p)
    \/ \E order \in RangeOrders : ListSyncs(order)
    \/ \E j \in 1..MaxJobs : startSync_Setup(j, "ready")
    \/ \E j \in 1..MaxJobs : startSync_RunStart(j, TRUE)
    \/ \E j \in 1..MaxJobs, text \in FieldTokens : reader_Token(j, text)

FieldsSpec == Init /\ [][FieldsNext]_vars

(* Scheduling: every goroutine that can take a step eventually takes it.    *)
(* sync.Mutex hands the lock to a waiter that has been starved (starvation  *)
(* mode), hence strong fairness for the steps that begin with Lock. The     *)
(* transfer process owes nothing: it may run for ever and ignore SIGTERM.   *)
JobFairness(j) ==
    /\ WF_vars(\E setup \in Setups : startSync_Setup(j, setup))
    /\ WF_vars(\E ok \in BOOLEAN : startSync_RunStart(j, ok))
    /\ WF_vars(startSync_RunWait(j))
    /\ SF_vars(startSync_Defer(j))
    /\ WF_vars(watcher_Signal(j))
    /\ WF_vars(watcher_Cancel(j))
    /\ WF_vars(exec_CtxKill(j))

HandlerFairness(i) ==
    /\ SF_vars(sync_Scan(i))
    /\ WF_vars(sync_Insert(i))

FairSpec ==
    /\ Spec
    /\ \A j \in 1..MaxJobs : JobFairness(j)
    /\ \A i \in Handlers : HandlerFairness(i)

\* srv.Shutdown is bounded by its timeout: main does return
ExitSpec ==
    /\ Init /\ [][NextToExit]_vars
    /\ \A j \in 1..MaxJobs : JobFairness(j)
    /\ \A i \in Handlers : HandlerFairness(i)
    /\ WF_vars(main_Return)

\* every user of the registry lock: start, cancel, list and remove requests
\* and the jobs with their teardown
LockNext ==
    \/ Next
    \/ RemoveStep
    \/ \E order \in RangeOrders : ListSyncs(order)

\* remove() begins with Lock; os.RemoveAll returns
RemoveFairness(i) ==
    /\ SF_vars(remove_Scan(i))
    /\ WF_vars(\E gone \in SUBSET Paths : remove_RemoveAll(i, gone))

LockSpec ==
    /\ Init /\ [][LockNext]_vars
    /\ \A j \in 1..MaxJobs : JobFairness(j)
    /\ \A i \in Handlers : HandlerFairness(i) /\ RemoveFairness(i)

(* ------------------------------ properties ----------------------------- *)

\* the job is in the registry
Registered(j) == \E k \in DOMAIN Data : Data[k] = j

\* p is an initial segment of q (p = q included)
PrefixOf(p, q) == \E n \in 0..Len(q) : p = SubSeq(q, 1, n)

PathsOverlap(p, q) == PrefixOf(p, q) \/ PrefixOf(q, p)

\* every entry is stored under its own path
KeysArePaths == \A k \in DOMAIN Data : Data[k] \in Jobs /\ syncs[Data[k]].Path = k

\* C1: no two distinct registered jobs have paths of which one is a string
\* prefix of the other (equality included)
C1_NoOverlapInRegistry ==
    /\ KeysArePaths
    /\ \A j1, j2 \in Jobs :
         (j1 # j2 /\ Registered(j1) /\ Registered(j2))
            => ~PathsOverlap(syncs[j1].Path, syncs[j2].Path)

\* two jobs are registered at once
C1_Witness ==
    /\ Cardinality(DOMAIN Data) = 2
    /\ \E j1, j2 \in Jobs : j1 # j2 /\ Registered(j1) /\ Registered(j2)

\* C2: a transfer process is live only while its job is registered, and no
\* two live transfer processes have overlapping paths
C2_NoOverlappingProcesses ==
    /\ \A j \in Jobs : proc[j] = "live" => Registered(j)
    /\ \A j1, j2 \in Jobs :
         (j1 # j2 /\ proc[j1] = "live" /\ proc[j2] = "live")
            => ~PathsOverlap(syncs[j1].Path, syncs[j2].Path)

\* two transfer processes run at the same time
C2_Witness ==
    \E j1, j2 \in Jobs : j1 # j2 /\ proc[j1] = "live" /\ proc[j2] = "live"

ScanStep(i) == handler[i].pc = "lock" /\ handler'[i] # handler[i]

\* handler i, past its scan, runs the insert in this step
InsertStep(i) == handler[i].pc = "insert" /\ handler'[i] # handler[i]

\* no registered path equals p, is a prefix of p, or has p as a prefix
NoneOverlaps(p) ==
    ~ \E q \in DOMAIN Data : q = p \/ PrefixOf(q, p) \/ PrefixOf(p, q)

\* C4: the insert attempt for p is accepted (true is returned, 200 answered
\* and p registered) if and only if no registered path equals p, is a
\* prefix of p or has p as a prefix; otherwise it is refused with 409
C4_AcceptedIffNoOverlap ==
    [][\A i \in Handlers :
         LET p == handler[i].path
         IN  /\ ScanStep(i) =>
                  IF NoneOverlaps(p)
                  THEN handler'[i].pc = "insert" /\ reply' = NoReply
                  ELSE /\ handler'[i] = IdleHandler
                       /\ reply' = Reply("start", 409, p)
                       /\ Data' = Data
             /\ InsertStep(i) =>
                  /\ NoneOverlaps(p)
                  /\ reply' = Reply("start", 200, p)
                  /\ p \in DOMAIN Data'
                  /\ syncs'[Data'[p]].Path = p
                  /\ ~Registered(Data'[p])]_vars

\* start("/a/b") has just been refused while only "/a" is registered
C4_Witness ==
    /\ reply = Reply("start", 409, PathAB)
    /\ DOMAIN Data = {PathA}

\* start("/c") has just been accepted while "/a" is registered
C4_AcceptedReached ==
    /\ reply = Reply("start", 200, PathC)
    /\ DOMAIN Data = {PathA, PathC}

\* C5: a refused start changes neither the registry nor any job: no Sync is
\* allocated, no supervisor or watcher launched, no process spawned, and no
\* field or cancellation state of an existing job changes
C5_RefusalChangesNothing ==
    [][(reply'.status = 409 /\ \E i \in Handlers : ScanStep(i))
          => UNCHANGED <<Data, syncs, pc, watcher, proc, cmdCancelled, quit, crashed, local, remote>>]_vars

\* a start has just been refused while a job with a live process is registered
C5_Witness ==
    /\ reply.status = 409
    /\ \E j \in Jobs : Registered(j) /\ proc[j] = "live"

\* C6: a start for p whose scan runs while a job on p is registered is
\* answered 409; once a job on p has been torn down and no unfinished job
\* overlaps p, the scan of a start for p passes and its insert answers 200
C6_ConflictThenAcceptedAgain ==
    [][\A i \in Handlers :
         LET p == handler[i].path
             tornDown == \E j \in Jobs : syncs[j].Path = p /\ pc[j] = "done"
             othersClear == \A j \in Jobs : pc[j] # "done" => ~PathsOverlap(syncs[j].Path, p)
         IN  /\ (ScanStep(i) /\ p \in DOMAIN Data)
                  => reply' = Reply("start", 409, p)
             /\ (ScanStep(i) /\ tornDown /\ othersClear)
                  => handler'[i].pc = "insert"
             /\ (InsertStep(i) /\ tornDown)
                  => reply' = Reply("start", 200, p) /\ pc'[Data'[p]] = "mkdir"]_vars

\* a second job on "/a" has just been accepted after the first one, which
\* was cancelled, has been torn down
C6_Witness ==
    /\ reply = Reply("start", 200, PathA)
    /\ \E j1, j2 \in Jobs :
         /\ j1 # j2
         /\ syncs[j1].Path = PathA /\ syncs[j1].Cancelled /\ pc[j1] = "done"
         /\ PathA \in DOMAIN Data /\ Data[PathA] = j2

\* C7: a job whose supervisor has finished, for whatever reason, is not in
\* the registry
C7_FinishedJobsAreRemoved ==
    \A j \in Jobs : pc[j] = "done" => ~Registered(j)

\* how the supervisor of a finished job ended
EndedBy(j) ==
    CASE pc[j] # "done"                           -> "running"
      [] proc[j] = "killed"                       -> "cancelled"
      [] proc[j] = "exited"                       -> "exited"
      [] watcher[j] = "none"                      -> "mkdir failed"
      [] OTHER                                    -> "not started"

\* two jobs have finished, one killed after a cancel, one on a MkdirAll failure
C7_Witness ==
    \E j1, j2 \in Jobs :
        /\ EndedBy(j1) = "cancelled" /\ syncs[j1].Cancelled
        /\ EndedBy(j2) = "mkdir failed"

\* a job has finished after its process exited on its own
C7_ExitedReached == \E j \in Jobs : EndedBy(j) = "exited"

\* a job has finished without a process: a pipe or cmd.Start failed
C7_NotStartedReached == \E j \in Jobs : EndedBy(j) = "not started"

\* C8: an accepted job that is no longer in the registry has no running
\* transfer process: it has terminated or was never spawned
C8_AbsentImpliesTerminated ==
    \A j \in Jobs : ~Registered(j) => proc[j] \in {"none", "exited", "killed"}

\* a job whose process ran and exited has left the registry
C8_Witness ==
    \E j \in Jobs : ~Registered(j) /\ proc[j] = "exited" /\ pc[j] = "done"

\* cancel has been called on job j while its process runs
CancelledWhileRunning(j) ==
    j \in Jobs /\ Registered(j) /\ syncs[j].Cancelled /\ proc[j] = "live"

\* C9: once cancel(p) has been called on a registered job whose process runs,
\* the job is eventually absent from the registry
C9_CancelLeadsToAbsent ==
    \A j \in 1..MaxJobs :
        CancelledWhileRunning(j) ~> (j \in Jobs /\ ~Registered(j))

\* as long as the service process lives the cancelled job does leave the
\* registry: the only runs on which it stays are those ended by the panic of
\* a watcher
CancelLeadsToAbsentOrCrash ==
    \A j \in 1..MaxJobs :
        CancelledWhileRunning(j) ~> ((j \in Jobs /\ ~Registered(j)) \/ crashed)

\* C10: a process is force-stopped (killed through its context) only after
\* the watcher has sent SIGTERM and the grace period that follows has elapsed
C10_NoForceBeforeGrace ==
    \A j \in Jobs : proc[j] = "killed" => watcher[j] = "done"

\* C11: a cancel request, at whatever point of the job's lifecycle it
\* arrives, never terminates the service
C11_CancelNeverTerminatesService == ~crashed

\* C12: cancel(p) is answered 200; it fires the cancellation of the job
\* registered under exactly p and of no other; with no such job (a job on a
\* prefix or an extension of p included) it leaves registry and jobs as they
\* are; and on a job already cancelled it changes nothing
C12_CancelExactAndIdempotent ==
    [][\A p \in Paths : CancelSync(p) =>
         /\ reply' = Reply("cancel", 200, <<>>)
         /\ UNCHANGED <<Data, mutex, handler, pc, watcher, proc, cmdCancelled, crashed, local, remote>>
         /\ (p \notin DOMAIN Data) => syncs' = syncs
         /\ (p \in DOMAIN Data) =>
              /\ syncs'[Data[p]].Cancelled
              /\ \A j \in Jobs : j # Data[p] => syncs'[j] = syncs[j]
              /\ syncs[Data[p]].Cancelled => syncs' = syncs]_vars

\* a cancel has just been answered while the only registered job, on "/a/b",
\* has not been cancelled: the cancel was for a path under which no job is
\* registered ("/a", a prefix of the job's path, among them)
C12_Witness ==
    /\ reply = Reply("cancel", 200, <<>>)
    /\ DOMAIN Data = {PathAB}
    /\ ~syncs[Data[PathAB]].Cancelled

\* a cancel has just been answered for a job whose watcher has already acted
\* on an earlier cancel
C12_RepeatedReached ==
    /\ reply = Reply("cancel", 200, <<>>)
    /\ \E p \in DOMAIN Data : watcher[Data[p]] \in {"sleep", "done"}

\* C13: a job that has not been cancelled itself is not touched by the
\* cancel of another: while its process runs the service lives, the job is
\* in the registry, its watcher still waits and its command context is open
C13_CancelLeavesOthersAlone ==
    \A q \in Jobs :
        (~syncs[q].Cancelled /\ proc[q] = "live") =>
            /\ ~crashed
            /\ Registered(q)
            /\ watcher[q] = "blocked"
            /\ ~cmdCancelled[q]

\* apart from the end of the service the cancel of one job leaves the
\* others alone
CancelLeavesOthersAloneUnlessCrash ==
    \A q \in Jobs :
        (~syncs[q].Cancelled /\ proc[q] = "live") =>
            /\ Registered(q)
            /\ watcher[q] = "blocked"
            /\ ~cmdCancelled[q]

\* C15: a start answered "invalid path" (400: the path is not in the fresh
\* remote listing) or with the listing's error (500) leaves the registry as
\* it is, creates no job and spawns no process
C15_InvalidStartChangesNothing ==
    [][/\ \A l \in {"error", "absent"} : StartSync_Invalid(l) =>
             reply' = Reply("start", IF l = "absent" THEN 400 ELSE 500, <<>>)
       /\ (reply'.op = "start" /\ reply'.status \in {400, 500}) =>
             UNCHANGED <<Data, mutex, syncs, handler, pc, watcher, proc, cmdCancelled, crashed, local, remote>>]_vars

\* a start has just been answered "invalid path" while a job with a running
\* process is registered
C15_Witness ==
    /\ reply = Reply("start", 400, <<>>)
    /\ \E j \in Jobs : Registered(j) /\ proc[j] = "live"

\* a start has just failed on the remote listing while a job is registered
C15_ListingFailedReached ==
    /\ reply = Reply("start", 500, <<>>)
    /\ DOMAIN Data # {}

\* MkdirAll failed for job j: its supervisor is past the setup and never
\* launched a watcher
MkdirFailed(j) == watcher[j] = "none" /\ pc[j] # "mkdir"

\* C16: a job whose MkdirAll failed never has a transfer process; its
\* supervisor is at the deferred delete or past it, and once past it the job
\* is not in the registry
C16_MkdirFailureSpawnsNothing ==
    \A j \in Jobs :
        MkdirFailed(j) =>
            /\ proc[j] = "none"
            /\ pc[j] \in {"teardown", "done"}
            /\ pc[j] = "done" => ~Registered(j)

\* a job whose MkdirAll failed has been removed, no process spawned
C16_Witness ==
    \E j \in Jobs : MkdirFailed(j) /\ pc[j] = "done" /\ ~Registered(j) /\ proc[j] = "none"

\* while the service lives the job whose MkdirAll failed does leave the registry
MkdirFailedLeadsToAbsentOrCrash ==
    \A j \in 1..MaxJobs :
        (j \in Jobs /\ MkdirFailed(j)) ~> ((j \in Jobs /\ ~Registered(j)) \/ crashed)

\* handler i, waiting in remove() for the mutex, runs its scan in this step
RemoveScanStep(i) ==
    handler[i].op = "remove" /\ handler[i].pc = "lock" /\ handler'[i] # handler[i]

\* handler i, past the scan of remove(), returns from os.RemoveAll in this step
RemoveAllStep(i) ==
    handler[i].op = "remove" /\ handler[i].pc = "removeall" /\ handler'[i] # handler[i]

\* q is the directory p or lies below it
Below(q, p) ==
    \/ q = p
    \/ Len(q) > Len(p) /\ SubSeq(q, 1, Len(p)) = p /\ q[Len(p) + 1] = "/"

\* C14: a remove for p that has passed the local validation is refused with
\* 409 and deletes nothing when a registered path equals p, is a prefix of p
\* or has p as a prefix; otherwise it deletes p and all below it and answers
\* 200 (or, the disk failing, answers with that error, nothing outside the
\* subtree deleted); the registry is not touched
C14_RemoveRefusedIffOverlap ==
    [][\A i \in Handlers :
         LET p == handler[i].path
         IN  /\ RemoveScanStep(i) =>
                  /\ UNCHANGED <<Data, syncs, local, remote>>
                  /\ IF NoneOverlaps(p)
                     THEN handler'[i].pc = "removeall" /\ reply' = NoReply
                     ELSE handler'[i] = IdleHandler /\ reply' = Reply("remove", 409, p)
             /\ RemoveAllStep(i) =>
                  /\ NoneOverlaps(p)
                  /\ UNCHANGED <<Data, syncs>>
                  /\ \/ /\ reply' = Reply("remove", 200, p)
                        /\ local' = {q \in local : ~Below(q, p)}
                     \/ /\ reply' = Reply("remove", 500, p)
                        /\ local' \subseteq local
                        /\ \A q \in local \ local' : Below(q, p)]_vars

\* remove("/a") has just been refused while a job on "/a/b" is registered,
\* nothing deleted
C14_Witness ==
    /\ reply = Reply("remove", 409, PathA)
    /\ DOMAIN Data = {PathAB}
    /\ {PathA, PathAB} \subseteq local

\* remove("/a") has just succeeded after the job on "/a/b" has ended: "/a"
\* and "/a/b" are gone
C14_RemovedReached ==
    /\ reply = Reply("remove", 200, PathA)
    /\ \E j \in Jobs : syncs[j].Path = PathAB /\ pc[j] = "done"
    /\ local \cap {PathA, PathAB} = {}

\* s sorts before t: lexical order of the characters "/" < "a" < "b" < "c" < "d"
RECURSIVE LexLess(_, _)
LexLess(s, t) ==
    LET rank == [c \in {"/", "a", "b", "c", "d"} |->
                    CASE c = "/" -> 0 [] c = "a" -> 1 [] c = "b" -> 2
                      [] c = "c" -> 3 [] c = "d" -> 4]
    IN  IF t = <<>> THEN FALSE
        ELSE IF s = <<>> THEN TRUE
        ELSE IF Head(s) # Head(t) THEN rank[Head(s)] < rank[Head(t)]
        ELSE LexLess(Tail(s), Tail(t))

\* C17: the list answered holds one view per job registered when it was
\* taken, none missing, none twice, none of a removed job, each view with the
\* fields of its job, in strictly descending lexical order of path
C17_ListIsSortedSnapshot ==
    reply.op = "list" =>
        LET r == reply.results
        IN  /\ reply.status = 200
            /\ Len(r) = Cardinality(DOMAIN Data)
            /\ {r[k].Path : k \in 1..Len(r)} = DOMAIN Data
            /\ \A k \in 1..Len(r) : r[k] = SyncResult(syncs[Data[r[k].Path]])
            /\ \A k \in 1..(Len(r) - 1) : LexLess(r[k + 1].Path, r[k].Path)

\* a list of two jobs has just been answered, "/c" before "/a/b"
C17_Witness ==
    /\ reply.op = "list"
    /\ Len(reply.results) = 2
    /\ reply.results[1].Path = PathC /\ reply.results[2].Path = PathAB

\* a list has just been answered that holds the one registered job and not
\* the job that has ended
C17_RemovedNotListed ==
    /\ reply.op = "list"
    /\ Len(reply.results) = 1
    /\ \E j \in Jobs : pc[j] = "done"

\* the field a word of output belongs to, by the first rule that matches:
\* last character "%", else last two characters "/s", else a ":" somewhere
ClassField(text) ==
    IF text[Len(text)] = "%" THEN "Progress"
    ELSE IF Len(text) >= 2 /\ text[Len(text) - 1] = "/" /\ text[Len(text)] = "s" THEN "Speed"
    ELSE IF \E k \in 1..Len(text) : text[k] = ":" THEN "TimeLeft"
    ELSE "Downloaded"

SyncFields == {"Path", "Progress", "Speed", "Downloaded", "TimeLeft", "Cancelled"}

\* the words that parse, with the number each denotes
Denotes ==
    (Tok42 :> 42) @@ (Tok7 :> 7) @@ (TokSpeed :> 2000) @@ (TokSpeedFrac :> 1500000)
        @@ (TokBytes :> 1234)

\* C18: a word of output is handled by the first rule it matches and by no
\* other: only the field of that rule may change, of that job only; a
\* timeLeft word is stored as it is, a number word stores the number it denotes
C18_FirstMatchingRuleOnly ==
    [][\A j \in Jobs, text \in Tokens :
         reader_Token(j, text) =>
            /\ \A f \in SyncFields \ {ClassField(text)} : syncs'[j][f] = syncs[j][f]
            /\ \A k \in Jobs \ {j} : syncs'[k] = syncs[k]
            /\ ClassField(text) = "TimeLeft" => syncs'[j].TimeLeft = text
            /\ text \in DOMAIN Denotes => syncs'[j][ClassField(text)] = Uint64(Denotes[text])]_vars

\* every rule has stored a value, and the word "1:0%", which ends in "%" and
\* holds a ":", has just been taken by the "%" rule: its parse failed and
\* timeLeft still holds the earlier word
C18_Witness ==
    /\ reply = Reply("log", 0, TokColonPct)
    /\ \E j \in Jobs :
         /\ syncs[j].Progress = Uint64(42) /\ syncs[j].Speed = Uint64(2000)
         /\ syncs[j].TimeLeft = TokTime /\ syncs[j].Downloaded = Uint64(1234)

\* C19: a word that fails to parse changes no field of any job; the job is
\* neither aborted nor removed and its reader is still at the pipe
C19_ParseFailureChangesNothing ==
    [][(reply'.op = "log") =>
         /\ UNCHANGED <<syncs, Data, mutex, handler, pc, watcher, proc, cmdCancelled, crashed, local, remote>>
         /\ \E j \in Jobs : pc'[j] = "wait" /\ syncs'[j].Path \in DOMAIN Data']_vars

\* "x%%" has just failed to parse: the progress read before is still there
\* and the job is still registered, its supervisor in cmd.Wait
C19_Witness ==
    /\ reply = Reply("log", 0, TokGarbage)
    /\ \E j \in Jobs : syncs[j].Progress = Uint64(42) /\ pc[j] = "wait" /\ Registered(j)

\* the state ReaderSpec starts from: the job on "/a" with its rsync started
ReaderInitReached ==
    /\ Data = (PathA :> 1) /\ syncs = <<NewSync(PathA)>> /\ pc = <<"wait">>
    /\ watcher = <<"blocked">> /\ proc = <<"live">> /\ cmdCancelled = <<FALSE>>
    /\ mutex = NoHolder /\ \A i \in Handlers : Idle(i)

\* every line of a directory comes before every line of a directory in it
ParentFirst(lines) ==
    \A k, l \in 1..Len(lines) :
        lines[l] # Root /\ lines[k] = Dir(lines[l]) => k < l

Listed == {remote[k] : k \in 1..Len(remote)}

\* path is q or is above q in the remote tree: every directory from q up to
\* path is listed
RECURSIVE Above(_, _)
Above(path, q) ==
    \/ q = path
    \/ q # Root /\ Dir(q) \in Listed /\ Above(path, Dir(q))

\* the answer of a ListDirs request whose listing succeeded
DirsListed == reply.op = "dirs" /\ reply.status = 200

\* C20: given a remote listing in parent-before-child order, a remote node is
\* marked synced if and only if its own path and the paths of all its
\* descendants in the remote tree are in the local map; so a remote node that
\* is missing locally makes itself and every ancestor up to the root unsynced.
C20_SyncedIffSubtreeLocal ==
    DirsListed /\ ParentFirst(remote) =>
        /\ {reply.results[k].Path : k \in 1..Len(reply.results)} = Listed
        /\ \A k \in 1..Len(reply.results) :
              reply.results[k].Synced <=>
                  \A q \in Listed :
                      Above(reply.results[k].Path, q) => q \in LocalTree
        /\ \A k, l \in 1..Len(reply.results) :
              /\ reply.results[l].Path \notin LocalTree
              /\ Above(reply.results[k].Path, reply.results[l].Path)
              => ~reply.results[k].Synced

\* the spec's fixture: "/a/b/c/d" alone is missing locally, and the answer
\* marks it, "/a/b/c", "/a/b" and "/a" unsynced
C20_Witness ==
    /\ remote = <<PathA, PathAB, PathABC, PathABCD>>
    /\ local = {PathA, PathAB, PathABC}
    /\ DirsListed
    /\ reply.results = <<[Path |-> PathA, Synced |-> FALSE],
                         [Path |-> PathAB, Synced |-> FALSE],
                         [Path |-> PathABC, Synced |-> FALSE],
                         [Path |-> PathABCD, Synced |-> FALSE]>>

\* a listing in parent-before-child order with a directory that is fully
\* present locally next to one that is not: the first is answered synced
C20_SyncedReached ==
    /\ remote = <<PathA, PathAB, PathC>>
    /\ local = {PathA, PathAB}
    /\ DirsListed
    /\ reply.results = <<[Path |-> PathA, Synced |-> TRUE],
                         [Path |-> PathAB, Synced |-> TRUE],
                         [Path |-> PathC, Synced |-> FALSE]>>

\* C21: buildRemote is all-or-nothing: when the remote command cannot be
\* started, exits non-zero, or reading its output fails, it returns an error
\* and no tree; a tree is returned only when the whole stream was consumed and
\* the command exited zero.
C21_RemoteAllOrNothing ==
    [][reply'.op = "dirs" /\ reply'.status = 200
       => ListDirs("walked", "listed")]_vars

\* a listing cut short by a read error is answered as if it were complete
C21_PartialTreeReached ==
    /\ remote = <<PathA, PathAB>>
    /\ local = {PathA, PathAB}
    /\ DirsListed
    /\ reply.results = <<[Path |-> PathA, Synced |-> TRUE]>>

\* where the remote command does run to its end, failures give no tree
C21_FailedRunGivesNoTree ==
    [][\A walk \in Walks, run \in Runs :
          ListDirs(walk, run) /\ run # "listed"
          => reply'.status = 500 /\ reply'.results = <<>>]_vars

\* C22: remove(p) for a path p that is absent from a fresh local tree build
\* fails with a validation error, deletes nothing from the filesystem and
\* leaves the registry unchanged, whether or not a job overlapping p is
\* registered; no such request gets as far as remove().
C22_AbsentPathRemovesNothing ==
    [][/\ \A p \in Paths :
             Remove_Invalid(p, "walked")
             => /\ reply'.op = "remove" /\ reply'.status = 400
                /\ UNCHANGED <<Data, mutex, syncs, handler, jobVars, local>>
       /\ \A i \in Handlers, p \in Paths :
             Remove_Validate(i, p) => p \in LocalTree]_vars

\* "/c" is gone from the disk, a job on "/c" is registered, and a remove of
\* "/c" has just been answered 400
C22_Witness ==
    /\ PathC \notin LocalTree
    /\ PathC \in DOMAIN Data
    /\ reply = Reply("remove", 400, <<>>)

\* the same answer with no job registered
C22_NoJobReached ==
    /\ PathC \notin LocalTree
    /\ Data = <<>>
    /\ reply = Reply("remove", 400, <<>>)

\* remove() is between its scan and the return of os.RemoveAll
Deleting(i) == handler[i].op = "remove" /\ handler[i].pc = "removeall"

\* C23: under any interleaving of remove and start requests, the recursive
\* deletion of the local subtree p never runs while a job overlapping p is
\* registered: none is registered when the deletion begins and none can be
\* accepted until it has finished, the overlap scan and the deletion being
\* one critical section of the registry lock.
C23_DeletionExcludesOverlappingJobs ==
    \A i \in Handlers :
        Deleting(i) =>
            /\ mutex = <<"h", i>>
            /\ ~ScanFinds(handler[i].path)
            /\ NoneOverlaps(handler[i].path)
            /\ \A k \in Handlers : handler[k].pc = "insert" => k = i

\* a deletion under way while a start request for an overlapping path waits
\* for the lock
C23_Witness ==
    \E i, k \in Handlers :
        /\ Deleting(i)
        /\ handler[k].op = "start" /\ handler[k].pc = "lock"
        /\ Overlaps(handler[k].path, handler[i].path)

\* the handler in slot i can take its next step now
CanProceed(i) ==
    CASE handler[i].pc = "idle" -> TRUE
      [] handler[i].pc = "lock" /\ handler[i].op = "start" -> ENABLED sync_Scan(i)
      [] handler[i].pc = "lock" /\ handler[i].op = "remove" -> ENABLED remove_Scan(i)
      [] handler[i].pc = "insert" -> ENABLED sync_Insert(i)
      [] handler[i].pc = "removeall" ->
            ENABLED (\E gone \in SUBSET Paths : remove_RemoveAll(i, gone))
      [] OTHER -> FALSE

\* the handler in slot i is inside its critical section
InCriticalSection(i) == handler[i].pc \in {"insert", "removeall"}

\* C24: an accepted start returns success without waiting for the transfer:
\* when 200 is answered the job is registered and its transfer is not over
\* (it has not even been spawned); and no request handler ever waits for a
\* transfer process to exit: whatever the jobs and their processes are doing,
\* a handler can take its next step, or it waits for the registry lock, which
\* is then held by a handler that can take its next step.
C24_HandlersNeverWaitForTransfer ==
    /\ reply.op = "start" /\ reply.status = 200
       => /\ reply.path \in DOMAIN Data
          /\ pc[Data[reply.path]] = "mkdir"
          /\ proc[Data[reply.path]] = "none"
    /\ ~crashed =>
          /\ mutex = NoHolder \/ \E k \in Handlers : mutex = <<"h", k>> /\ InCriticalSection(k)
          /\ \A i \in Handlers :
                \/ CanProceed(i)
                \/ /\ handler[i].pc = "lock"
                   /\ \E k \in Handlers :
                         mutex = <<"h", k>> /\ InCriticalSection(k) /\ CanProceed(k)
          /\ mutex = NoHolder /\ SomeHandlerIdle
             => \A p \in Paths : ENABLED CancelSync(p)

\* a start has just been answered 200 while the transfer of another job is
\* running
C24_Witness ==
    /\ reply.op = "start" /\ reply.status = 200
    /\ \E j \in Jobs : proc[j] = "live"
    /\ ~crashed

\* a start is inside its critical section while a transfer is running
C24_CriticalSectionDuringTransfer ==
    /\ \E k \in Handlers : handler[k].pc = "insert" /\ mutex = <<"h", k>>
    /\ \E j \in Jobs : proc[j] = "live"

\* the state of a job whose supervisor is at position p and whose process is
\* q: Starting until the process is spawned, Running while it lives, Exiting
\* from its exit (or from the failure to spawn it) to the removal, then Gone
Phase(p, q) ==
    CASE p = "done" -> "Gone"
      [] p = "teardown" -> "Exiting"
      [] p = "wait" /\ q # "live" -> "Exiting"
      [] p = "wait" -> "Running"
      [] OTHER -> "Starting"

\* the states that do not come before a state
NotBefore ==
    [Starting |-> {"Starting", "Running", "Exiting", "Gone"},
     Running |-> {"Running", "Exiting", "Gone"},
     Exiting |-> {"Exiting", "Gone"},
     Gone |-> {"Gone"}]

\* the supervisor of job j or its process can take a step
JobCanMove(j) ==
    \/ ENABLED (\E setup \in Setups : startSync_Setup(j, setup))
    \/ ENABLED (\E ok \in BOOLEAN : startSync_RunStart(j, ok))
    \/ ENABLED startSync_RunWait(j)
    \/ ENABLED startSync_Defer(j)
    \/ ENABLED proc_Exit(j)
    \/ ENABLED exec_CtxKill(j)

\* Gone is terminal and nothing else is: a job that is Gone is out of the
\* registry and makes no step; any other job of a living service can make
\* one, or waits for the registry lock to remove itself
OnlyGoneIsTerminal ==
    \A j \in Jobs :
        IF pc[j] = "done"
        THEN /\ ~JobCanMove(j)
             /\ syncs[j].Path \in DOMAIN Data => Data[syncs[j].Path] # j
        ELSE \/ crashed
             \/ JobCanMove(j)
             \/ pc[j] = "teardown" /\ mutex # NoHolder

\* C25: each job moves only forward through Starting -> Running -> Exiting ->
\* Gone: it begins in Starting, a transfer process is spawned at most once per
\* job and only after the destination directory was ensured, the job never
\* returns to an earlier state, and Gone (removed from the registry) is the
\* only terminal state.
C25_JobMovesForwardOnly ==
    /\ []OnlyGoneIsTerminal
    /\ [][/\ \A j \in Jobs :
               /\ Phase(pc'[j], proc'[j]) \in NotBefore[Phase(pc[j], proc[j])]
               /\ proc[j] # "none" => proc'[j] # "none"
               /\ proc'[j] = "live" /\ proc[j] # "live"
                  => /\ proc[j] = "none" /\ pc[j] = "run"
                     /\ Dir(syncs[j].Path) \in LocalTree
               /\ pc'[j] = "run" /\ pc[j] # "run"
                  => /\ pc[j] = "mkdir"
                     /\ Dir(syncs[j].Path) \in local' \cup {Root}
          /\ \A j \in 1..Len(syncs') :
               j \notin Jobs => Phase(pc'[j], proc'[j]) = "Starting"]_vars

\* a job that has gone through all four states, and one that went from
\* Starting to Exiting without a process
C25_Witness ==
    \E j, k \in Jobs :
        /\ Phase(pc[j], proc[j]) = "Gone" /\ proc[j] = "exited"
        /\ Phase(pc[k], proc[k]) = "Exiting" /\ proc[k] = "none"

\* the watcher goroutine of job j is alive: waiting for the cancellation
\* signal or in its grace period
WatcherAlive(j) == watcher[j] \in {"blocked", "sleep"}

\* C26: the cancellation watcher of a job lives only for the lifetime of that
\* job's process: once the process has exited and the job has been removed,
\* whether or not a cancel was ever requested, the watcher terminates and is
\* not left blocked forever on the cancellation signal.
C26_WatcherEndsWithJob ==
    \A j \in 1..MaxJobs :
        (j \in Jobs /\ pc[j] = "done" /\ proc[j] \in {"exited", "killed"})
            ~> (j \in Jobs /\ ~WatcherAlive(j))

\* a job that nobody cancelled has ended and is out of the registry, its
\* watcher still waiting
C26_LeakReached ==
    \E j \in Jobs :
        /\ pc[j] = "done" /\ proc[j] = "exited" /\ ~Registered(j)
        /\ ~syncs[j].Cancelled /\ watcher[j] = "blocked"

\* without an interrupt of the service nothing wakes the watcher of a job
\* that ended uncancelled: cancel requests no longer find the job
WatcherStaysBlocked ==
    [][\A j \in Jobs :
          pc[j] = "done" /\ watcher[j] = "blocked" /\ ~JobCtxDone(j)
          => watcher'[j] = "blocked" /\ ~JobCtxDone(j)']_vars

\* a watcher whose job was cancelled while its process ran does end, as long
\* as the service lives
CancelledWatcherEnds ==
    \A j \in 1..MaxJobs :
        (j \in Jobs /\ watcher[j] = "sleep")
            ~> ((j \in Jobs /\ ~WatcherAlive(j)) \/ crashed)

\* the statement of C26 with the runs ended by a panic set aside
WatcherEndsWithJobOrCrash ==
    \A j \in 1..MaxJobs :
        (j \in Jobs /\ pc[j] = "done" /\ proc[j] \in {"exited", "killed"})
            ~> ((j \in Jobs /\ ~WatcherAlive(j)) \/ crashed)

\* in the tree, every node of the map that has a parent reference has as
\* parent the node the map holds under the directory name of its path, and
\* that parent has the node among its children
WellLinked(tree) ==
    \A path \in DOMAIN tree.pathMap :
        LET n == tree.pathMap[path]
            item == tree.items[n]
        IN  item.Parent # 0 =>
                /\ Dir(item.Path) \in DOMAIN tree.pathMap
                /\ tree.pathMap[Dir(item.Path)] = item.Parent
                /\ item.Name \in DOMAIN tree.items[item.Parent].Children
                /\ tree.items[item.Parent].Children[item.Name] = n

\* no line comes twice
NoRepeats(lines) == \A k, l \in 1..Len(lines) : lines[k] = lines[l] => k = l

\* C27: in every tree returned by buildLocal or buildRemote, each node that
\* has a parent reference has as parent the node stored in the same tree's
\* map under the directory name of the node's path, and that parent lists the
\* node among its children; for every input listing, repeated lines included.
C27_TreesAreWellLinked ==
    DirsListed =>
        /\ WellLinked(BuildLocalTree(local))
        /\ WellLinked(BuildRemoteTree(remote, LocalTree))

\* "/a" is listed again after "/a/b": the node of "/a/b" keeps the first node
\* of "/a" as its parent, the map holds the second, which has no children, and
\* the missing "/a/b" leaves the "/a" of the answer synced
C27_StaleParentReached ==
    /\ remote = <<PathA, PathAB, PathA>>
    /\ local = {PathA}
    /\ DirsListed
    /\ reply.results = <<[Path |-> PathA, Synced |-> TRUE],
                         [Path |-> PathAB, Synced |-> FALSE]>>

\* the local tree is always well linked, and so is the remote tree of a
\* listing that names every directory once
TreesAreWellLinkedWithoutRepeats ==
    DirsListed =>
        /\ WellLinked(BuildLocalTree(local))
        /\ NoRepeats(remote) => WellLinked(BuildRemoteTree(remote, LocalTree))

\* line k names a directory whose parent directory has no line before it but
\* has one after it
ChildFirst(k) ==
    /\ remote[k] # Root
    /\ \A l \in 1..(k - 1) : remote[l] # Dir(remote[k])
    /\ \E l \in (k + 1)..Len(remote) : remote[l] = Dir(remote[k])

\* the paths of the nodes of the map from which the Parent references lead to
\* node k, node k included
LinkedBelow(tree, k) ==
    {path \in DOMAIN tree.pathMap :
        k \in setNotSynced(tree.items, tree.pathMap[path])}

\* C28: when a remote listing delivers a child directory line before its
\* parent's line, the child node is created with no parent reference and
\* keeps none after the parent line is processed, so marking that child (or
\* any of its descendants) unsynced does not mark the parent unsynced: the
\* parent is marked as it would be were the child and all below it local.
C28_ChildBeforeParentStaysDetached ==
    DirsListed =>
        LET tree == BuildRemoteTree(remote, LocalTree)
        IN  \A k \in 1..Len(remote) :
                ChildFirst(k) =>
                    /\ tree.items[k].Parent = 0
                    /\ LET parent == tree.pathMap[Dir(remote[k])]
                           others == BuildRemoteTree(remote,
                                         LocalTree \cup LinkedBelow(tree, k))
                       IN  /\ tree.items[parent].Synced = others.items[parent].Synced
                           /\ \A n \in 1..Len(reply.results) :
                                 reply.results[n].Path = Dir(remote[k])
                                 => reply.results[n].Synced = others.items[parent].Synced

\* "/a/b" is listed before "/a" and is missing locally: the answer has
\* "/a/b" unsynced and "/a" synced
C28_Witness ==
    /\ remote = <<PathAB, PathA>>
    /\ local = {PathA}
    /\ DirsListed
    /\ reply.results = <<[Path |-> PathA, Synced |-> TRUE],
                         [Path |-> PathAB, Synced |-> FALSE]>>

\* the same with a missing directory below the child: "/a/b/c" marks "/a/b"
\* and stops there
C28_DescendantReached ==
    /\ remote = <<PathAB, PathABC, PathA>>
    /\ local = {PathA, PathAB}
    /\ DirsListed
    /\ reply.results = <<[Path |-> PathA, Synced |-> TRUE],
                         [Path |-> PathAB, Synced |-> FALSE],
                         [Path |-> PathABC, Synced |-> FALSE]>>

\* the words that are an integer with a "%", and the words that are an
\* integer with or without commas, each with the integer it denotes
PercentWords == (Tok42 :> 42) @@ (Tok7 :> 7) @@ (Tok150 :> 150) @@ (TokNeg :> 0 - 1)

ByteWords == (TokBytes :> 1234) @@ (TokNegBytes :> 0 - 1234)

\* the unsigned field holds exactly the integer n
Exactly(field, n) == n >= 0 /\ field = Uint64(n)

\* C29: for every word ending in "%" whose stripped text parses as an integer
\* n, the job's progress becomes exactly n, with no clamping to 0..100; and
\* for every comma-grouped integer word downloaded becomes exactly the
\* integer it denotes; for all integers the parser accepts, negative ones
\* included.
C29_IntegersStoredExactly ==
    [][\A j \in Jobs :
          /\ \A text \in DOMAIN PercentWords :
                reader_Token(j, text)
                => Exactly(syncs'[j].Progress, PercentWords[text])
          /\ \A text \in DOMAIN ByteWords :
                reader_Token(j, text)
                => Exactly(syncs'[j].Downloaded, ByteWords[text])]_vars

\* "-1%" has been read: progress is 2^64 - 1
C29_NegativeWrapsReached ==
    \E j \in Jobs : syncs[j].Progress = <<Word - 1, Word - 1, Word - 1, Word - 1>>

\* "150%" has been read: progress is 150
C29_UnclampedReached ==
    \E j \in Jobs : syncs[j].Progress = Uint64(150)

\* the integers that are not negative are stored as they are, the others
\* as themselves + 2^64 (the complement of -n - 1)
IntegersStoredModulo ==
    [][\A j \in Jobs :
          /\ \A text \in DOMAIN PercentWords :
                reader_Token(j, text) =>
                    LET n == PercentWords[text]
                    IN  IF n >= 0 THEN Exactly(syncs'[j].Progress, n)
                        ELSE \A k \in 1..4 :
                                syncs'[j].Progress[k] + Uint64(0 - n - 1)[k] = Word - 1
          /\ \A text \in DOMAIN ByteWords :
                reader_Token(j, text) =>
                    LET n == ByteWords[text]
                    IN  IF n >= 0 THEN Exactly(syncs'[j].Downloaded, n)
                        ELSE \A k \in 1..4 :
                                syncs'[j].Downloaded[k] + Uint64(0 - n - 1)[k] = Word - 1]_vars

\* the fields of a job that report its transfer
ProgressFields == {"Progress", "Speed", "Downloaded", "TimeLeft"}

\* a request has been answered or has moved on in its handler
RequestStep ==
    \/ handler' # handler
    \/ reply'.op \in {"start", "cancel", "list", "remove"}

\* C30: a job's progress, speed, downloaded and timeLeft fields are changed
\* only by that job's own progress reader: a word of one job's process never
\* changes another job's fields, each word changes at most the one field of
\* its class, and start, cancel, list and remove never change the fields of
\* an existing job.
C30_FieldsWrittenByOwnReaderOnly ==
    [][syncs' # syncs
       => /\ \A j \in Jobs :
                (\E f \in ProgressFields : syncs'[j][f] # syncs[j][f])
                => \E text \in Tokens :
                      /\ reader_Token(j, text)
                      /\ \A f \in ProgressFields \ {ClassField(text)} :
                            syncs'[j][f] = syncs[j][f]
                      /\ \A k \in Jobs \ {j} : syncs'[k] = syncs[k]
          /\ RequestStep
             => \A j \in Jobs, f \in ProgressFields :
                   syncs'[j][f] = syncs[j][f]]_vars

\* two transfers at once, each with what its own reader has stored, and a
\* list request just answered
C30_Witness ==
    /\ reply.op = "list"
    /\ \E j, k \in Jobs :
          /\ syncs[j].Progress = Uint64(42) /\ syncs[j].TimeLeft = <<>>
          /\ syncs[k].Progress = Uint64(0) /\ syncs[k].TimeLeft = TokTime

\* a remove just done, a cancel just answered and a start just accepted, each
\* next to a job that holds what its reader has stored
C30_RemoveReached ==
    /\ reply.op = "remove" /\ reply.status = 200
    /\ \E j \in Jobs : syncs[j].Progress = Uint64(42)

C30_CancelReached ==
    /\ reply.op = "cancel"
    /\ \E j \in Jobs : syncs[j].Progress = Uint64(42) /\ syncs[j].Cancelled

C30_StartReached ==
    /\ reply.op = "start" /\ reply.status = 200
    /\ \E j \in Jobs : syncs[j].Progress = Uint64(42)

\* the entry stored under the path of job j, if any, is job j
OwnsItsPath(j) == \A k \in DOMAIN Data : k = syncs[j].Path => Data[k] = j

\* every job whose teardown has not run holds the entry under its path
PathsOwned == \A j \in Jobs : pc[j] # "done" => OwnsItsPath(j)

\* C31: a job's teardown, which deletes the registry entry by path, removes
\* that job's own entry only: from the moment a job is accepted until its
\* teardown has run, the entry under its path (if any) is that same job,
\* never a newer job accepted for the same path; the teardown step takes
\* out that entry and no other.
C31_TeardownRemovesOwnEntryOnly ==
    /\ []PathsOwned
    /\ [][\A j \in Jobs :
             (pc[j] = "teardown" /\ pc'[j] = "done")
             => /\ OwnsItsPath(j)
                /\ \A k \in DOMAIN Data : k # syncs[j].Path
                      => k \in DOMAIN Data' /\ Data'[k] = Data[k]]_vars

\* a path used a second time: the newer job is about to be torn down while
\* holding the entry, the older job's teardown has run
C31_Witness ==
    \E j, old \in Jobs :
        /\ old < j
        /\ syncs[old].Path = syncs[j].Path
        /\ pc[old] = "done"
        /\ pc[j] = "teardown"
        /\ syncs[j].Path \in DOMAIN Data /\ Data[syncs[j].Path] = j

\* handler i has called Lock in sync() or remove() and has not got the lock
WaitsForLock(i) == handler[i].pc = "lock"

\* the supervisor of job j is at the Lock of its deferred delete
AtTeardown(j) == j \in Jobs /\ pc[j] = "teardown"

\* whoever holds the lock is a handler in the critical section of sync() or
\* remove(), and in a living service its next step, which releases the lock,
\* can be taken whatever the processes and the watchers are doing
HeldInCriticalSectionOnly ==
    mutex # NoHolder
    => \E i \in Handlers :
          /\ mutex = <<"h", i>>
          /\ InCriticalSection(i)
          /\ crashed \/ CanProceed(i)

\* C32: the registry lock never causes a deadlock: under any interleaving of
\* start, cancel, list, remove and job teardown, every operation that
\* requests the lock eventually acquires and releases it, and the lock is
\* never held while waiting for a transfer process to exit or for the
\* cancellation grace period.
C32_LockAlwaysGranted ==
    /\ []HeldInCriticalSectionOnly
    /\ \A i \in Handlers : WaitsForLock(i) ~> ~WaitsForLock(i)
    /\ \A i \in Handlers : (mutex = <<"h", i>>) ~> (mutex # <<"h", i>>)
    /\ \A j \in 1..MaxJobs : AtTeardown(j) ~> (j \in Jobs /\ pc[j] = "done")

\* the statement of C32 with the runs ended by a panic set aside
LockGrantedOrCrash ==
    /\ []HeldInCriticalSectionOnly
    /\ \A i \in Handlers : WaitsForLock(i) ~> (~WaitsForLock(i) \/ crashed)
    /\ \A i \in Handlers : (mutex = <<"h", i>>) ~> (mutex # <<"h", i>> \/ crashed)
    /\ \A j \in 1..MaxJobs : AtTeardown(j) ~> ((j \in Jobs /\ pc[j] = "done") \/ crashed)

\* the service has ended on a panic with a request waiting for the lock, and
\* with a request inside its critical section
C32_CrashWhileWaitingReached ==
    crashed /\ \E i \in Handlers : WaitsForLock(i)

C32_CrashWhileHeldReached ==
    crashed /\ mutex # NoHolder

\* a start, a remove and a teardown contend: one request holds the lock, the
\* other request and a job's deferred delete wait for it
C32_ContentionReached ==
    \E i, k \in Handlers, j \in Jobs :
        /\ mutex = <<"h", i>>
        /\ WaitsForLock(k)
        /\ handler[i].op # handler[k].op
        /\ AtTeardown(j)

\* the process of job j runs and nobody asked to cancel the job
RunningUncancelled(j) == j \in Jobs /\ proc[j] = "live" /\ ~syncs[j].Cancelled

\* the watcher of job j has sent SIGTERM: the cancellation path has begun
Signalled(j) == j \in Jobs /\ watcher[j] \in {"sleep", "done"}

\* once the process-wide context is done, the context of every job is done
ShutdownFiresEverySignal == quit => \A j \in Jobs : JobCtxDone(j)

\* C33: when the process-wide context is cancelled, the cancellation signal
\* of every registered job fires, and every running job then goes through
\* its cancellation path without a cancel request having been made for it.
C33_ShutdownCancelsEveryJob ==
    /\ []ShutdownFiresEverySignal
    /\ \A j \in 1..MaxJobs : (quit /\ RunningUncancelled(j)) ~> Signalled(j)

\* the interrupt came while a job was running, main has returned, no
\* goroutine panicked, and the watcher of the job never got to its SIGTERM:
\* the rsync child outlives the service
C33_ExitBeforeSignalReached ==
    /\ quit /\ crashed
    /\ \A j \in Jobs : watcher[j] # "panic"
    /\ \E j \in Jobs : RunningUncancelled(j) /\ watcher[j] = "blocked"

\* the interrupt came while one job was running and another was starting:
\* the watcher of the starting job panicked before the running job's
\* watcher sent anything
C33_PanicBeforeSignalReached ==
    /\ quit /\ crashed
    /\ \E j, k \in Jobs :
          /\ watcher[k] = "panic"
          /\ RunningUncancelled(j) /\ watcher[j] = "blocked"

\* the cancellation path can be gone through after an interrupt: an
\* uncancelled job whose watcher has signalled, slept and called cancel()
C33_PathCompletedReached ==
    /\ quit /\ ~crashed
    /\ \E j \in Jobs : ~syncs[j].Cancelled /\ watcher[j] = "done"

\* while the service process lives, the watcher of a running job can send
\* its signal as soon as the process-wide context is done
SignalPossibleAfterShutdown ==
    \A j \in Jobs :
        (quit /\ ~crashed /\ RunningUncancelled(j) /\ watcher[j] = "blocked")
        => ENABLED watcher_Signal(j)

====
